---- MODULE Spec2Model ----
(***************************************************************************)
(* The agent control loop of friday: the bounded tool-calling loop of      *)
(* ClaudeProvider.generateResponse, the tool dispatcher executeToolCall,   *)
(* the approval-gated write tools writeFile / applyPatch, the workspace    *)
(* sandbox resolvePathInWorkspace and the tool catalog buildTools.         *)
(*                                                                         *)
(* Paths are strings, modelled as sequences of one-character strings, so   *)
(* that string-level tests of the code (startsWith) and structural ones    *)
(* (path.relative) are different computations.                             *)
(***************************************************************************)
EXTENDS Integers, Sequences, FiniteSets, TLC

\* ------------------------------------------------------------------ bounds
MaxPathLen == 6
MaxToolCalls == 2
MaxTurns == 2
MaxBlocks == 2
MaxTasks == 2
MaxCmdLen == 4

\* ------------------------------------------------------------------ strings
PathChars == {"/", ".", "a", "b"}

Strings(n) == UNION {[1..k -> PathChars] : k \in 0..n}

startsWith(s, prefix) ==
    /\ Len(s) >= Len(prefix)
    /\ SubSeq(s, 1, Len(prefix)) = prefix

RECURSIVE SplitFrom(_, _, _)
SplitFrom(p, i, cur) ==
    IF i > Len(p) THEN <<cur>>
    ELSE IF p[i] = "/" THEN <<cur>> \o SplitFrom(p, i + 1, <<>>)
    ELSE SplitFrom(p, i + 1, Append(cur, p[i]))

\* p.split('/')
split(p) == SplitFrom(p, 1, <<>>)

RECURSIVE JoinSegs(_)
JoinSegs(segs) ==
    IF segs = <<>> THEN <<>>
    ELSE IF Len(segs) = 1 THEN segs[1]
    ELSE segs[1] \o <<"/">> \o JoinSegs(Tail(segs))

\* ------------------------------------------------------------------ node:path (posix)
DotDot == <<".", ".">>

isAbsolute(p) == Len(p) > 0 /\ p[1] = "/"

\* normalizeString(path, allowAboveRoot = false): drops empty and '.' segments,
\* a '..' segment removes the segment before it and is dropped at the root.
RECURSIVE normalizeSegs(_, _)
normalizeSegs(segs, acc) ==
    IF segs = <<>> THEN acc
    ELSE LET s == Head(segs) IN
         IF s = <<>> \/ s = <<".">> THEN normalizeSegs(Tail(segs), acc)
         ELSE IF s = DotDot
              THEN normalizeSegs(Tail(segs),
                                 IF acc = <<>> THEN acc ELSE SubSeq(acc, 1, Len(acc) - 1))
              ELSE normalizeSegs(Tail(segs), Append(acc, s))

\* the segments of the absolute, normalised path that `p` names
SegsOf(p) == normalizeSegs(split(p), <<>>)

FromSegs(segs) == <<"/">> \o JoinSegs(segs)

\* process.cwd(), the base of path.resolve when no argument is absolute
ProcessCwd == <<"/", "b">>

\* path.resolve(p)
resolve1(p) ==
    IF isAbsolute(p) THEN FromSegs(SegsOf(p))
    ELSE FromSegs(SegsOf(ProcessCwd \o <<"/">> \o p))

\* path.resolve(base, p): the rightmost absolute argument starts the result
resolve(base, p) ==
    IF isAbsolute(p) THEN resolve1(p)
    ELSE resolve1(base \o <<"/">> \o p)

RECURSIVE CommonLen(_, _)
CommonLen(a, b) ==
    IF a = <<>> \/ b = <<>> \/ Head(a) # Head(b) THEN 0
    ELSE 1 + CommonLen(Tail(a), Tail(b))

\* path.relative(from, to): one '..' per segment of `from` below the common
\* ancestor, then the segments of `to` below it; '' when both are the same
relative(from, to) ==
    LET f == SegsOf(resolve1(from))
        t == SegsOf(resolve1(to))
        c == CommonLen(f, t)
        ups == [i \in 1..(Len(f) - c) |-> DotDot]
    IN JoinSegs(ups \o SubSeq(t, c + 1, Len(t)))

\* path.dirname(p) of an absolute normalised path
dirname(p) ==
    LET s == SegsOf(p)
    IN IF s = <<>> THEN <<"/">> ELSE FromSegs(SubSeq(s, 1, Len(s) - 1))

\* ------------------------------------------------------------------ workspace.ts
\* A mutant of assertPathWithinWorkspace: containment decided by a string
\* prefix test, so a sibling whose name extends the workspace's passes.
assertPrefixOnly(resolvedPath, workspace) ==
    startsWith(resolvedPath, workspace)

\* TRUE when the path passes, FALSE when WorkspaceError is thrown
assertPathWithinWorkspace(resolvedPath, workspace) ==
    LET relativePath == relative(workspace, resolvedPath)
    IN ~(startsWith(relativePath, DotDot) \/ isAbsolute(relativePath))

\* ok = FALSE stands for the thrown WorkspaceError
resolvePathInWorkspace(targetPath, workspace) ==
    LET resolvedPath == IF isAbsolute(targetPath)
                        THEN resolve1(targetPath)
                        ELSE resolve(workspace, targetPath)
    IN [ok |-> assertPathWithinWorkspace(resolvedPath, workspace),
        path |-> resolvedPath]

\* ------------------------------------------------------------------ state
VARIABLES
    rpTarget, rpWorkspace, rpResult,  \* one call of resolvePathInWorkspace
    rcCmd, rcResult,                  \* one call of runCommand
    apInput, apChoice,                \* one call of promptForApproval
    recIn, recOut,                    \* one ToolCallRecord pushed by executeToolCall
    readCall,                         \* one call of readFile: cwd, path, what it opened
    launch,         \* the way to runClaudeAgent: the command, the keys, the preflight
    options,        \* CliOptions of the task, fixed for the run
    dirs, files,    \* the file system: existing directories, file path -> content
    tools,          \* the catalog handed to ClaudeProvider
    pc,             \* where generateResponse stands
    response,       \* the model's last response: stop_reason and number of tool_use blocks
    turnCount, toolCallCount,
    idx,            \* position of the for loop in toolUseBlocks
    toolUse,        \* the block the for loop is at: id, name, input.path (input.cmd)
    toolResults,    \* the tool_result blocks collected in this turn (their tool_use_id)
    messages,       \* the conversation sent to the model: its length
    result,         \* the ToolResult the last onToolCall returned
    toolCalls,      \* the ledger: number of ToolCallRecords pushed
    advisorResponses, \* the AdvisorResponses pushed: the error flag of each
    returned,       \* how generateResponse ended
    content,        \* LLMResponse.content of what generateResponse returned
    choice,         \* what promptForApproval returned in the current call ("none": no prompt)
    handler,        \* the write handler of the current call: the file it read, patchedContent
    dispatched,     \* history: number of onToolCall invocations
    abortSeen,      \* history: an approval prompt was answered abort
    fsLog,          \* history: every path created or written
    session,        \* the interactive session: its write mode, the task lines entered
    tasks           \* the tasks of the session: where each one's run stands

pathVars == <<rpTarget, rpWorkspace, rpResult>>
sessionVars == <<session, tasks>>
commandVars == <<rcCmd, rcResult>>
approvalVars == <<apInput, apChoice>>
recordVars == <<recIn, recOut>>
diskVars == <<dirs, files, fsLog>>
loopVars == <<pc, response, turnCount, toolCallCount, idx, toolUse, toolResults,
              messages, result, toolCalls, returned, content, choice, dispatched, abortSeen,
              advisorResponses, handler>>

vars == <<rpTarget, rpWorkspace, rpResult, options, dirs, files, tools, pc,
          response, turnCount, toolCallCount, idx, toolUse, toolResults, messages,
          result, toolCalls, returned, content, choice, dispatched, abortSeen, fsLog,
          session, tasks, rcCmd, rcResult, apInput, apChoice, launch, advisorResponses,
          recIn, recOut, readCall, handler>>

\* ------------------------------------------------------------------ inputs
Workspaces == {<<"/", "a">>, <<"/", "a", "b">>, <<"/", "a", "/", "b">>}

\* options.workspace undefined (or ''): falsy
NoWorkspace == <<>>
MainWorkspace == <<"/", "a", "/", "b">>

Advisors == {"openai", "gemini"}

\* input.path of the write-class requests the model makes
TargetPaths == {
    <<"x">>,                      \* a file in the workspace
    <<".">>,                      \* the workspace itself
    <<".", ".", "/", "x">>,       \* ../x
    <<"/", "a", "/", "b", "b">>   \* /a/bb, a sibling whose name extends the workspace's
}

NoToolUse == [id |-> 0, name |-> "none", path |-> <<>>]
NoToolResult == [is_error |-> FALSE, content |-> "none"]
NoResponse == [stop_reason |-> "none", blocks |-> 0, text |-> 0]
NoContent == [text |-> 0, notice |-> "none", limit |-> 0]
\* no write handler has come to its file access in this call
NoHandler == [read |-> <<>>, patched |-> "none"]

AllOptions ==
    [apply : BOOLEAN, approve : BOOLEAN, workspace : {NoWorkspace, MainWorkspace},
     advisors : SUBSET Advisors, maxToolCalls : 1..MaxToolCalls, maxTurns : 1..MaxTurns]

\* The loop and the dispatcher never read options.advisors
RunOptions == {o \in AllOptions : o.advisors = {"openai"}}

Root == <<"/">>

\* The file system a task may start on: the workspace need not exist (the ask
\* command does not check), and the target file may be there already.
InitialDisks ==
    {[dirs |-> {Root}, files |-> <<>>],
     [dirs |-> {Root, <<"/", "a">>}, files |-> <<>>],
     [dirs |-> {Root, <<"/", "a">>, MainWorkspace}, files |-> <<>>],
     [dirs |-> {Root, <<"/", "a">>, MainWorkspace},
      files |-> (<<"/", "a", "/", "b", "/", "x">> :> "old")]}

\* gather_context has run and ANTHROPIC_API_KEY is set: claude_agent is next
Launched ==
    [stage |-> "agent", envKey |-> TRUE, sessionKey |-> FALSE, isTTY |-> FALSE,
     keyEntered |-> FALSE, preflights |-> 1, gitDiff |-> "empty",
     repoSearch |-> "empty", context |-> {}]

InitLoop ==
    /\ tools = <<>>
    /\ pc = "init"
    /\ response = NoResponse
    /\ turnCount = 0
    /\ toolCallCount = 0
    /\ idx = 0
    /\ toolUse = NoToolUse
    /\ toolResults = <<>>
    /\ messages = 0
    /\ result = NoToolResult
    /\ toolCalls = 0
    /\ advisorResponses = <<>>
    /\ returned = "none"
    /\ content = NoContent
    /\ choice = "none"
    /\ handler = NoHandler
    /\ dispatched = 0
    /\ abortSeen = FALSE
    /\ fsLog = {}

InitRest ==
    /\ launch = Launched
    /\ InitLoop

\* no interactive session: the ask command runs one task
NoTask == [pc |-> "none", toolCallCount |-> 0, mode |-> "none", workspace |-> NoWorkspace,
           catalog |-> {}, writes |-> 0, planOnly |-> FALSE]

InitSessionIdle ==
    /\ session = [mode |-> "none", lines |-> 0, workspace |-> NoWorkspace,
                  planOnly |-> FALSE, messages |-> <<>>]
    /\ tasks = [t \in 1..MaxTasks |-> NoTask]

InitCommandIdle ==
    /\ rcCmd = <<>>
    /\ rcResult = [called |-> FALSE, spawned |-> FALSE, stderr |-> "none"]

InitReadIdle ==
    readCall = [cwd |-> MainWorkspace, path |-> <<>>, called |-> FALSE, denied |-> FALSE,
                opened |-> <<>>]

InitRecordIdle ==
    /\ recIn = [tool |-> "none", notFound |-> FALSE, resultLen |-> 0, pathLen |-> 0]
    /\ recOut = [pushed |-> FALSE, output |-> 0]

InitApprovalIdle ==
    /\ apInput = [isTTY |-> TRUE, selected |-> "cancel", answer |-> <<>>]
    /\ apChoice = [prompt |-> "none", choice |-> "none"]

InitPathIdle ==
    /\ rpTarget = <<>>
    /\ rpWorkspace = MainWorkspace
    /\ rpResult = [called |-> FALSE, ok |-> FALSE, path |-> <<>>]

Init ==
    /\ InitPathIdle
    /\ InitSessionIdle
    /\ InitCommandIdle
    /\ InitApprovalIdle
    /\ InitRecordIdle
    /\ InitReadIdle
    /\ options \in RunOptions
    /\ \E d \in InitialDisks : dirs = d.dirs /\ files = d.files
    \* without a workspace no path of the disk is looked at
    /\ options.workspace = NoWorkspace => dirs = {Root}
    /\ InitRest

\* ------------------------------------------------------------------ resolvePathInWorkspace alone
InitPath ==
    /\ rpTarget \in Strings(MaxPathLen)
    /\ rpWorkspace \in Workspaces
    /\ rpResult = [called |-> FALSE, ok |-> FALSE, path |-> <<>>]
    /\ options = [apply |-> FALSE, approve |-> FALSE, workspace |-> rpWorkspace,
                  advisors |-> {}, maxToolCalls |-> 1, maxTurns |-> 1]
    /\ dirs = {Root}
    /\ files = <<>>
    /\ InitRest
    /\ InitSessionIdle
    /\ InitCommandIdle
    /\ InitApprovalIdle
    /\ InitRecordIdle
    /\ InitReadIdle

ResolveInWorkspace ==
    /\ ~rpResult.called
    /\ rpResult' = [called |-> TRUE] @@ resolvePathInWorkspace(rpTarget, rpWorkspace)
    /\ UNCHANGED <<rpTarget, rpWorkspace, options, tools>>
    /\ UNCHANGED sessionVars
    /\ UNCHANGED commandVars
    /\ UNCHANGED approvalVars
    /\ UNCHANGED recordVars
    /\ UNCHANGED readCall
    /\ UNCHANGED launch
    /\ UNCHANGED diskVars
    /\ UNCHANGED loopVars

NextPath == ResolveInWorkspace

SpecPath == InitPath /\ [][NextPath]_vars

\* ------------------------------------------------------------------ the keys
\* sessionMap[keyName] || process.env[envMap[keyName]], for 'anthropic'
getKey(l) == l.sessionKey \/ l.envKey

\* ------------------------------------------------------------------ router.ts: buildTools
\* A mutant of buildTools: the write tools are added for --apply alone.
buildToolsApplyOnly(opts) ==
    <<"repo_search", "read_file", "git_diff", "run_command">>
    \o (IF opts.apply THEN <<"write_file", "apply_patch">> ELSE <<>>)
    \o (IF "openai" \in opts.advisors THEN <<"ask_openai">> ELSE <<>>)
    \o (IF "gemini" \in opts.advisors THEN <<"ask_gemini">> ELSE <<>>)

\* A mutant of buildTools: the write tools are offered in every mode
buildToolsWriteAlways(opts) ==
    <<"repo_search", "read_file", "git_diff", "run_command", "write_file", "apply_patch">>
    \o (IF "openai" \in opts.advisors THEN <<"ask_openai">> ELSE <<>>)
    \o (IF "gemini" \in opts.advisors THEN <<"ask_gemini">> ELSE <<>>)

buildTools(opts) ==
    <<"repo_search", "read_file", "git_diff", "run_command">>
    \o (IF opts.apply \/ opts.approve THEN <<"write_file", "apply_patch">> ELSE <<>>)
    \o (IF "openai" \in opts.advisors THEN <<"ask_openai">> ELSE <<>>)
    \o (IF "gemini" \in opts.advisors THEN <<"ask_gemini">> ELSE <<>>)

\* runClaudeAgent: builds the catalog, constructs the provider and issues
\* the first model call of generateResponse
runClaudeAgent ==
    /\ pc = "init"
    /\ launch.stage = "agent"
    /\ IF ~getKey(launch)
       THEN \* throw new Error("ANTHROPIC_API_KEY is required...")
            /\ pc' = "done"
            /\ returned' = "no_key"
            /\ UNCHANGED <<tools, messages>>
       ELSE /\ tools' = buildTools(options)
            \* messages = [{ role: 'user', content: userMessage }]
            /\ messages' = 1
            /\ pc' = "awaiting_model"
            /\ UNCHANGED returned
    /\ UNCHANGED <<options, response, turnCount, toolCallCount, idx, toolUse,
                   toolResults, result, toolCalls, content, choice, dispatched, abortSeen>>
    /\ UNCHANGED diskVars
    /\ UNCHANGED pathVars
    /\ UNCHANGED sessionVars
    /\ UNCHANGED commandVars
    /\ UNCHANGED approvalVars
    /\ UNCHANGED recordVars
    /\ UNCHANGED readCall
    /\ UNCHANGED launch
    /\ UNCHANGED advisorResponses
    /\ UNCHANGED handler

\* ------------------------------------------------------------------ buildTools alone
InitCatalog ==
    /\ InitPathIdle
    /\ InitSessionIdle
    /\ InitCommandIdle
    /\ InitApprovalIdle
    /\ InitRecordIdle
    /\ InitReadIdle
    /\ options \in AllOptions
    /\ dirs = {Root}
    /\ files = <<>>
    /\ InitRest

NextCatalog == runClaudeAgent

SpecCatalog == InitCatalog /\ [][NextCatalog]_vars

\* ------------------------------------------------------------------ fs/promises
\* the directory itself and every directory above it
RECURSIVE Ancestors(_)
Ancestors(d) ==
    IF SegsOf(d) = <<>> THEN {Root} ELSE {d} \cup Ancestors(dirname(d))

\* mkdir(d, {recursive: true}) rejects when a component of d is a file
mkdirOk(d) == Ancestors(d) \cap DOMAIN files = {}

\* fs.writeFile(p) rejects on a directory (EISDIR) and under a missing or
\* non-directory parent (ENOENT, ENOTDIR)
fsWriteOk(p, ds) == p \notin ds /\ dirname(p) \in ds

\* ------------------------------------------------------------------ claude.ts: generateResponse
\* The conversation holds the task and two messages per completed turn. The
\* model is not called on a longer one (no run of the loop gets there).
MaxMessages == 1 + 2 * MaxTurns

\* A mutant of turnCount++: the counter is left as it is
turnCountKept(count) == count

\* turnCount++
nextTurnCount(count) == count + 1

\* A mutant of the turn limit: the guard is one turn late
turnLimitLate(count, max) == count > max + 1

\* if (turnCount > this.maxTurns)
turnLimitHit(count, max) == count > max

\* A mutant of the tool call limit: each invocation is counted as it is
\* dispatched, so the invocations that fit in the budget are dispatched
toolLimitPerCall(count, blocks, max) == count >= max /\ blocks > 0

\* if (toolCallCount + toolUseBlocks.length > this.maxToolCalls)
toolLimitHit(count, blocks, max) == count + blocks > max

\* What the model may answer to its k-th invocation. The text blocks of the
\* k-th response are the text k: every response has a text of its own.
Responses(k) ==
    {[stop_reason |-> "end_turn", blocks |-> 0, text |-> k]}
    \cup [stop_reason : {"tool_use"}, blocks : 0..MaxBlocks, text : {k}]

\* A mutant of the budget returns: the notice alone, without the partial text
stopContentNoticeOnly(r, notice, limit) ==
    [text |-> 0, notice |-> notice, limit |-> limit]

\* content: partialContent + warning, the warning naming the limit and its value
stopContent(r, notice, limit) ==
    [text |-> r.text, notice |-> notice, limit |-> limit]

\* content: textBlocks.map((b) => b.text).join('\n')
finalContent(r) == [text |-> r.text, notice |-> "none", limit |-> 0]

\* client.messages.create resolves; the while condition and the budget guards
\* run up to the for loop
ModelResponds ==
    /\ pc = "awaiting_model"
    /\ messages <= MaxMessages
    /\ \E r \in Responses((messages + 1) \div 2) :
        /\ response' = r
        /\ IF r.stop_reason # "tool_use"
           THEN /\ returned' = "final"
                /\ content' = finalContent(r)
                /\ pc' = "done"
                /\ UNCHANGED <<turnCount, idx, toolResults, messages>>
           ELSE /\ turnCount' = nextTurnCount(turnCount)
                /\ IF turnLimitHit(turnCount', options.maxTurns)
                   THEN /\ returned' = "max_turns"
                        /\ content' = stopContent(r, "max_turns", options.maxTurns)
                        /\ pc' = "done"
                        /\ UNCHANGED <<idx, toolResults, messages>>
                   ELSE IF toolLimitHit(toolCallCount, r.blocks, options.maxToolCalls)
                   THEN /\ returned' = "max_tool_calls"
                        /\ content' = stopContent(r, "max_tool_calls", options.maxToolCalls)
                        /\ pc' = "done"
                        /\ UNCHANGED <<idx, toolResults, messages>>
                   ELSE /\ UNCHANGED <<returned, content>>
                        /\ toolResults' = <<>>
                        /\ idx' = 1
                        \* no block: the turn is pushed and the model is called again
                        /\ messages' = IF r.blocks = 0 THEN messages + 2 ELSE messages
                        /\ pc' = IF r.blocks = 0 THEN "awaiting_model" ELSE "dispatch"
    /\ UNCHANGED <<options, tools, toolCallCount, toolUse, result, toolCalls, choice,
                   dispatched, abortSeen>>
    /\ UNCHANGED diskVars
    /\ UNCHANGED pathVars
    /\ UNCHANGED sessionVars
    /\ UNCHANGED commandVars
    /\ UNCHANGED approvalVars
    /\ UNCHANGED recordVars
    /\ UNCHANGED readCall
    /\ UNCHANGED launch
    /\ UNCHANGED advisorResponses
    /\ UNCHANGED handler

\* ------------------------------------------------------------------ tool results
Content(c) == [is_error |-> FALSE, content |-> c]
Error(c) == [is_error |-> TRUE, content |-> c]

\* A mutant of the tool_use blocks: every block carries the first block's id
BlockFirstId(name, path) == [id |-> 1, name |-> name, path |-> path]

\* the block the for loop is at; its id is its position in the response
Block(name, path) == [id |-> idx, name |-> name, path |-> path]

\* A mutant of the for loop: it is left after its first block
forLoopDoneAfterFirst(next, blocks) == next > 1

\* for (const toolUse of toolUseBlocks): no block is left
forLoopDone(next, blocks) == next > blocks

\* for (const toolUse of toolUseBlocks) { toolCallCount++; await this.onToolCall(...)
BeginCall(name, path) ==
    /\ pc = "dispatch"
    /\ toolCallCount' = toolCallCount + 1
    /\ dispatched' = dispatched + 1
    /\ toolUse' = Block(name, path)

\* onToolCall returned `res`: toolResults.push, and after the last block the
\* turn is appended to messages and the model is called again
EndCall(use, res, recorded) ==
    /\ toolResults' = Append(toolResults, use.id)
    /\ result' = res
    /\ toolCalls' = IF recorded THEN toolCalls + 1 ELSE toolCalls
    /\ idx' = idx + 1
    /\ messages' = IF forLoopDone(idx + 1, response.blocks) THEN messages + 2 ELSE messages
    /\ pc' = IF forLoopDone(idx + 1, response.blocks) THEN "awaiting_model" ELSE "dispatch"

\* ------------------------------------------------------------------ router.ts: executeToolCall, read-class tools
\* repo_search, git_diff: the handler returns or throws
CallReadClass(name) ==
    /\ BeginCall(name, <<>>)
    /\ \E threw \in BOOLEAN :
        IF threw THEN EndCall(Block(name, <<>>), Error("handler_error"), FALSE)
        ELSE EndCall(Block(name, <<>>), Content("result"), TRUE)
    /\ choice' = "none"
    /\ handler' = NoHandler
    /\ UNCHANGED <<options, tools, response, turnCount, returned, content, abortSeen>>
    /\ UNCHANGED diskVars
    /\ UNCHANGED pathVars
    /\ UNCHANGED sessionVars
    /\ UNCHANGED commandVars
    /\ UNCHANGED approvalVars
    /\ UNCHANGED recordVars
    /\ UNCHANGED readCall
    /\ UNCHANGED launch
    /\ UNCHANGED advisorResponses

CallRepoSearch == CallReadClass("repo_search")

CallGitDiff == CallReadClass("git_diff")

\* ------------------------------------------------------------------ mcp/tools: runCommand
ALLOWED_COMMANDS == <<
    <<"y", "a", "r", "n", " ", "t", "e", "s", "t">>,
    <<"y", "a", "r", "n", " ", "l", "i", "n", "t">>,
    <<"y", "a", "r", "n", " ", "t", "y", "p", "e", "c", "h", "e", "c", "k">>,
    <<"y", "a", "r", "n", " ", "b", "u", "i", "l", "d">>,
    <<"n", "p", "m", " ", "t", "e", "s", "t">>,
    <<"n", "p", "m", " ", "r", "u", "n", " ", "l", "i", "n", "t">>,
    <<"n", "p", "m", " ", "r", "u", "n", " ", "t", "y", "p", "e", "c", "h", "e", "c", "k">>,
    <<"n", "p", "m", " ", "r", "u", "n", " ", "b", "u", "i", "l", "d">>,
    <<"g", "i", "t", " ", "d", "i", "f", "f">>,
    <<"g", "i", "t", " ", "s", "t", "a", "t", "u", "s">>,
    <<"g", "i", "t", " ", "l", "o", "g">>,
    <<"l", "s">>,
    <<"c", "a", "t">>,
    <<"h", "e", "a", "d">>,
    <<"t", "a", "i", "l">>
>>

\* the prefixes isCommandAllowed accepts a command by
prefixAllowed == <<
    <<"y", "a", "r", "n", " ", "t", "e", "s", "t">>,
    <<"y", "a", "r", "n", " ", "l", "i", "n", "t">>,
    <<"y", "a", "r", "n", " ", "t", "y", "p", "e", "c", "h", "e", "c", "k">>,
    <<"y", "a", "r", "n", " ", "b", "u", "i", "l", "d">>,
    <<"n", "p", "m", " ", "t", "e", "s", "t">>,
    <<"n", "p", "m", " ", "r", "u", "n">>,
    <<"g", "i", "t", " ", "d", "i", "f", "f">>,
    <<"g", "i", "t", " ", "s", "t", "a", "t", "u", "s">>,
    <<"g", "i", "t", " ", "l", "o", "g">>,
    <<"l", "s">>,
    <<"c", "a", "t">>,
    <<"h", "e", "a", "d">>,
    <<"t", "a", "i", "l">>
>>

\* the characters of the command strings
CmdChars == {"l", "s", "L", "o", " "}

CmdStrings(n) == UNION {[1..k -> CmdChars] : k \in 0..n}

\* String.prototype.toLowerCase, on the characters in use
toLowerCase(str) ==
    [i \in 1..Len(str) |-> CASE str[i] = "L" -> "l"
                              [] str[i] = "S" -> "s"
                              [] str[i] = "Y" -> "y"
                              [] str[i] = "A" -> "a"
                              [] OTHER -> str[i]]

\* String.prototype.trim
RECURSIVE trim(_)
trim(str) ==
    IF str = <<>> THEN str
    ELSE IF Head(str) = " " THEN trim(Tail(str))
    ELSE IF str[Len(str)] = " " THEN trim(SubSeq(str, 1, Len(str) - 1))
    ELSE str

isCommandAllowed(cmd) ==
    LET normalizedCmd == toLowerCase(trim(cmd)) IN
    \/ \E i \in 1..Len(ALLOWED_COMMANDS) : normalizedCmd = toLowerCase(ALLOWED_COMMANDS[i])
    \/ \E i \in 1..Len(prefixAllowed) :
            startsWith(normalizedCmd, toLowerCase(prefixAllowed[i]))

\* runCommand(cmd): refused with the list of the allowed commands in stderr,
\* or handed to execAsync as it was given; exec failures are results too
runCommand(cmd) ==
    IF ~isCommandAllowed(cmd)
    THEN [spawned |-> FALSE, stderr |-> "not_allowed_with_list"]
    ELSE [spawned |-> TRUE, stderr |-> "of_the_command"]

\* runCommand alone, on every command string
InitCommand ==
    /\ InitPathIdle
    /\ InitSessionIdle
    /\ InitApprovalIdle
    /\ InitRecordIdle
    /\ InitReadIdle
    /\ rcCmd \in CmdStrings(MaxCmdLen)
    /\ rcResult = [called |-> FALSE, spawned |-> FALSE, stderr |-> "none"]
    /\ options = [apply |-> FALSE, approve |-> FALSE, workspace |-> NoWorkspace,
                  advisors |-> {}, maxToolCalls |-> 1, maxTurns |-> 1]
    /\ dirs = {Root}
    /\ files = <<>>
    /\ InitRest

RunCommand ==
    /\ ~rcResult.called
    /\ rcResult' = [called |-> TRUE] @@ runCommand(rcCmd)
    /\ UNCHANGED <<rcCmd, options, tools>>
    /\ UNCHANGED approvalVars
    /\ UNCHANGED recordVars
    /\ UNCHANGED readCall
    /\ UNCHANGED launch
    /\ UNCHANGED pathVars
    /\ UNCHANGED sessionVars
    /\ UNCHANGED diskVars
    /\ UNCHANGED loopVars

NextCommand == RunCommand

SpecCommand == InitCommand /\ [][NextCommand]_vars

\* ------------------------------------------------------------------ the ToolCallRecord alone
\* Strings are taken by their length here.
OutputLimit == 1000

\* the longest path there is (PATH_MAX - 1)
MaxPathChars == 4095

\* the characters of the FILE DOES NOT EXIST text around ${input.path}
NotFoundFixedLen == 192

\* the tools whose calls are recorded
RecordedTools ==
    {"repo_search", "read_file", "git_diff", "run_command", "write_file", "apply_patch",
     "ask_openai", "ask_gemini"}

\* result.length of what the handler returned
ResultLens == {0, 1, OutputLimit - 1, OutputLimit, OutputLimit + 1, 10 * OutputLimit}

\* input.path.length of a read_file request
PathLens ==
    {1, 255, OutputLimit - NotFoundFixedLen, OutputLimit - NotFoundFixedLen + 1,
     MaxPathChars}

\* str.substring(0, n).length
substringLen(len, n) == IF len < n THEN len ELSE n

\* the length of `output` in the record executeToolCall pushes: the not-found
\* branch of read_file pushes its text as it is, the common push truncates
recordOutputLen(tool, notFound, resultLen, pathLen) ==
    IF tool = "read_file" /\ notFound
    THEN NotFoundFixedLen + pathLen
    ELSE substringLen(resultLen, OutputLimit)

InitRecord ==
    /\ InitReadIdle
    /\ InitPathIdle
    /\ InitSessionIdle
    /\ InitCommandIdle
    /\ InitApprovalIdle
    /\ recIn \in [tool : RecordedTools, notFound : BOOLEAN, resultLen : ResultLens,
                   pathLen : PathLens]
    \* only readFile throws FileNotFoundError
    /\ recIn.notFound => recIn.tool = "read_file"
    /\ recOut = [pushed |-> FALSE, output |-> 0]
    /\ options = [apply |-> TRUE, approve |-> FALSE, workspace |-> MainWorkspace,
                  advisors |-> Advisors, maxToolCalls |-> 1, maxTurns |-> 1]
    /\ dirs = {Root}
    /\ files = <<>>
    /\ InitRest

\* toolCalls.push({ tool, input, output, timestamp })
PushRecord ==
    /\ ~recOut.pushed
    /\ recOut' = [pushed |-> TRUE,
                  output |-> recordOutputLen(recIn.tool, recIn.notFound, recIn.resultLen,
                                             recIn.pathLen)]
    /\ UNCHANGED <<recIn, options, tools, launch, readCall>>
    /\ UNCHANGED pathVars
    /\ UNCHANGED sessionVars
    /\ UNCHANGED commandVars
    /\ UNCHANGED approvalVars
    /\ UNCHANGED diskVars
    /\ UNCHANGED loopVars

NextRecord == PushRecord

SpecRecord == InitRecord /\ [][NextRecord]_vars

\* ------------------------------------------------------------------ promptForApproval alone
MaxAnswerLen == 3

ApprovalChoices == {"yes", "no", "skip", "abort"}

AnswerChars == {"y", "e", "s", "n", "o", "a", "Y", " "}

\* the line typed at the prompt: short lines, and the long words in full
Answers ==
    UNION {[1..k -> AnswerChars] : k \in 0..MaxAnswerLen}
        \cup {<<"s", "k", "i", "p">>, <<"a", "b", "o", "r", "t">>,
              <<"A", "b", "o", "r", "t">>, <<" ", "s", "k", "i", "p", " ">>}

\* what the select() of the chooser ends with: one of its three entries, or
\* a thrown ExitPromptError (Esc, Ctrl+C)
Selections == {"yes", "skip", "no", "cancel"}

promptForApprovalSimpleDefaultYes(answer) ==
    LET normalized == trim(toLowerCase(answer))
    IN  IF normalized \in {<<"n">>, <<"n", "o">>} THEN "no"
        ELSE IF normalized \in {<<"s">>, <<"s", "k", "i", "p">>} THEN "skip"
        ELSE "yes"

\* the prompt of the chooser when stdin or stdout is no terminal
promptForApprovalSimple(answer) ==
    LET normalized == trim(toLowerCase(answer))
    IN  IF normalized \in {<<"y">>, <<"y", "e", "s">>} THEN "yes"
        ELSE IF normalized \in {<<"s">>, <<"s", "k", "i", "p">>} THEN "skip"
        ELSE "no"

\* the chooser: select() among Apply, Skip, Reject on a terminal
promptForApproval(isTTY, selected, answer) ==
    IF ~isTTY THEN promptForApprovalSimple(answer)
    ELSE IF selected = "cancel" THEN "abort"
    ELSE selected

\* the line prompt "[y]es / [n]o / [s]kip / [a]bort all"
parseApprovalChoice(input) ==
    LET normalized == trim(toLowerCase(input))
    IN  IF normalized \in {<<"y">>, <<"y", "e", "s">>} THEN "yes"
        ELSE IF normalized \in {<<"n">>, <<"n", "o">>} THEN "no"
        ELSE IF normalized \in {<<"s">>, <<"s", "k", "i", "p">>} THEN "skip"
        ELSE IF normalized \in {<<"a">>, <<"a", "b", "o", "r", "t">>} THEN "abort"
        ELSE "no"

InitApproval ==
    /\ InitRecordIdle
    /\ InitReadIdle
    /\ InitPathIdle
    /\ InitSessionIdle
    /\ InitCommandIdle
    /\ apInput \in [isTTY : BOOLEAN, selected : Selections, answer : Answers]
    /\ apChoice = [prompt |-> "none", choice |-> "none"]
    /\ options = [apply |-> FALSE, approve |-> TRUE, workspace |-> MainWorkspace,
                  advisors |-> {}, maxToolCalls |-> 1, maxTurns |-> 1]
    /\ dirs = {Root}
    /\ files = <<>>
    /\ InitRest

ApprovalIdle ==
    /\ UNCHANGED <<apInput, options, tools, launch>>
    /\ UNCHANGED recordVars
    /\ UNCHANGED readCall
    /\ UNCHANGED pathVars
    /\ UNCHANGED sessionVars
    /\ UNCHANGED commandVars
    /\ UNCHANGED diskVars
    /\ UNCHANGED loopVars

\* the module with the chooser
PromptWithChooser ==
    /\ apChoice.prompt = "none"
    /\ apChoice' = [prompt |-> "chooser",
                    choice |-> promptForApproval(apInput.isTTY, apInput.selected,
                                                 apInput.answer)]
    /\ ApprovalIdle

\* the module with the line prompt: it asks for a line, terminal or not
PromptWithLine ==
    /\ apChoice.prompt = "none"
    /\ apChoice' = [prompt |-> "line", choice |-> parseApprovalChoice(apInput.answer)]
    /\ ApprovalIdle

NextApproval == PromptWithChooser \/ PromptWithLine

SpecApproval == InitApproval /\ [][NextApproval]_vars

\* input.cmd of the run_command requests the model makes
RunCommands == {<<"l", "s">>, <<"l", "s", "o">>, <<"o">>}

\* executeToolCall, case "run_command": whatever runCommand returns is
\* JSON.stringify-ed, recorded and returned as content; an input without cmd
\* makes cmd.trim() throw, which the catch block turns into an error
CallRunCommand ==
    /\ \E cmd \in RunCommands, hasCmd \in BOOLEAN :
        IF ~hasCmd
        THEN /\ BeginCall("run_command", <<>>)
             /\ EndCall(Block("run_command", <<>>), Error("handler_error"), FALSE)
        ELSE /\ BeginCall("run_command", cmd)
             /\ EndCall(Block("run_command", cmd),
                        Content(IF runCommand(cmd).spawned THEN "result"
                                ELSE "command_not_allowed"), TRUE)
    /\ choice' = "none"
    /\ handler' = NoHandler
    /\ UNCHANGED <<options, tools, response, turnCount, returned, content, abortSeen>>
    /\ UNCHANGED diskVars
    /\ UNCHANGED pathVars
    /\ UNCHANGED sessionVars
    /\ UNCHANGED commandVars
    /\ UNCHANGED approvalVars
    /\ UNCHANGED recordVars
    /\ UNCHANGED readCall
    /\ UNCHANGED launch
    /\ UNCHANGED advisorResponses

\* const cwd = options.cwd || process.cwd(): the tasks run in the workspace
\* directory
Cwd == MainWorkspace

\* input.path of the read_file requests the model makes
ReadPaths == {
    <<"x">>,                      \* a file of the working directory, if it is there
    <<".">>,                      \* the working directory itself
    <<".", ".", "/", "x">>        \* ../x
}

\* path.join(base, p)
join(base, p) == FromSegs(SegsOf(base \o <<"/">> \o p))

\* const fullPath = isAbsolute(path) ? path : join(options.cwd, path): an
\* absolute path is taken as it is written, '..' segments included
readFileFullPath(cwd, path) == IF isAbsolute(path) THEN path ELSE join(cwd, path)

\* if (!fullPath.startsWith(options.cwd)) throw new Error('Access denied: ...')
readFileDenied(cwd, path) == ~startsWith(readFileFullPath(cwd, path), cwd)

\* fsReadFile(fullPath, 'utf-8'): the file system follows the '.' and '..'
\* segments of the path it is given; this is the file that is opened
fsReadFileTarget(fullPath) == FromSegs(SegsOf(fullPath))

\* readFile(path, {cwd}): the content, or the error thrown. `ioError`: reading
\* a file that is there fails (access rights, I/O).
readFile(path, ioError) ==
    LET fullPath == readFileFullPath(Cwd, path)
    IN IF readFileDenied(Cwd, path) THEN "access_denied"
       ELSE IF fullPath \in DOMAIN files
            THEN (IF ioError THEN "read_failed" ELSE "content")
       ELSE IF fullPath \in dirs THEN "read_failed"
       ELSE "not_found"

\* ------------------------------------------------------------------ readFile alone
InitRead ==
    /\ readCall \in [cwd : Workspaces, path : Strings(MaxPathLen), called : {FALSE},
                      denied : {FALSE}, opened : {<<>>}]
    /\ InitPathIdle
    /\ InitSessionIdle
    /\ InitCommandIdle
    /\ InitApprovalIdle
    /\ InitRecordIdle
    /\ options = [apply |-> FALSE, approve |-> FALSE, workspace |-> NoWorkspace,
                  advisors |-> {}, maxToolCalls |-> 1, maxTurns |-> 1]
    /\ dirs = {Root}
    /\ files = <<>>
    /\ InitRest

\* readFile(path, { cwd }) up to the file access
ReadFileInCwd ==
    /\ ~readCall.called
    /\ LET denied == readFileDenied(readCall.cwd, readCall.path) IN
       readCall' = [readCall EXCEPT
                        !.called = TRUE,
                        !.denied = denied,
                        !.opened = IF denied THEN <<>>
                                   ELSE fsReadFileTarget(
                                            readFileFullPath(readCall.cwd, readCall.path))]
    /\ UNCHANGED <<options, tools, launch>>
    /\ UNCHANGED pathVars
    /\ UNCHANGED sessionVars
    /\ UNCHANGED commandVars
    /\ UNCHANGED approvalVars
    /\ UNCHANGED recordVars
    /\ UNCHANGED diskVars
    /\ UNCHANGED loopVars

NextRead == ReadFileInCwd

SpecRead == InitRead /\ [][NextRead]_vars

\* ------------------------------------------------------------------ read_file in the loop
\* A mutant of the read_file case: FileNotFoundError is re-thrown like the
\* other errors
readFileResultNotFoundThrown(outcome) ==
    IF outcome = "content" THEN [res |-> Content("result"), recorded |-> TRUE]
    ELSE [res |-> Error(outcome), recorded |-> FALSE]

\* executeToolCall, case "read_file": the content and the FILE DOES NOT EXIST
\* note are recorded and returned as content, any other error reaches the
\* catch block
readFileResult(outcome) ==
    IF outcome = "content" THEN [res |-> Content("result"), recorded |-> TRUE]
    ELSE IF outcome = "not_found"
    THEN [res |-> Content("file_does_not_exist"), recorded |-> TRUE]
    ELSE [res |-> Error(outcome), recorded |-> FALSE]

CallReadFile ==
    /\ \E path \in ReadPaths, ioError \in BOOLEAN :
        LET r == readFileResult(readFile(path, ioError)) IN
        /\ BeginCall("read_file", path)
        /\ EndCall(Block("read_file", path), r.res, r.recorded)
    /\ choice' = "none"
    /\ handler' = NoHandler
    /\ UNCHANGED <<options, tools, response, turnCount, returned, content, abortSeen>>
    /\ UNCHANGED diskVars
    /\ UNCHANGED pathVars
    /\ UNCHANGED sessionVars
    /\ UNCHANGED commandVars
    /\ UNCHANGED approvalVars
    /\ UNCHANGED recordVars
    /\ UNCHANGED readCall
    /\ UNCHANGED launch
    /\ UNCHANGED advisorResponses

\* ask_openai, ask_gemini. onActivity is passed by every caller of
\* runOrchestrator, so extractQuestionSummary(input.prompt) runs, before the
\* try block: on an input without prompt, prompt.match throws a TypeError that
\* nothing catches, and executeToolCall, generateResponse and the run reject.
\* With a prompt the advisor answers or reports an error.
\* AdvisorResponse of askOpenAI / askGemini: without a key or on a provider
\* error the error is set and the response empty; otherwise the text of the
\* advisor, which may read like a request for a tool
AdvisorResults ==
    {[response |-> "", error |-> TRUE],
     [response |-> "result", error |-> FALSE],
     [response |-> "advisor_tool_request", error |-> FALSE]}

advisorToolResultContentOnly(r) == [res |-> Content(r.response), recorded |-> TRUE]

\* if (advisorResult.error) return { error }; result = advisorResult.response
advisorToolResult(r) ==
    IF r.error THEN [res |-> Error("advisor_error"), recorded |-> FALSE]
    ELSE [res |-> Content(r.response), recorded |-> TRUE]

toolUseBlocksWithAdvisorText(r, text) ==
    IF text = "advisor_tool_request" THEN r.blocks + 1 ELSE r.blocks

\* const toolUseBlocks = response.content.filter(...): taken from the model's
\* response before the for loop, whatever a tool result says
toolUseBlocks(r, text) == r.blocks

CallAskAdvisor ==
    /\ \E name \in {"ask_openai", "ask_gemini"}, hasPrompt \in BOOLEAN :
        /\ BeginCall(name, <<>>)
        /\ IF ~hasPrompt
           THEN /\ pc' = "done"
                /\ returned' = "threw"
                /\ UNCHANGED <<toolResults, messages, result, toolCalls, idx, content,
                               advisorResponses, response>>
           ELSE /\ \E advisorResult \in AdvisorResults :
                    LET t == advisorToolResult(advisorResult) IN
                    /\ advisorResponses' =
                           Append(advisorResponses, [error |-> advisorResult.error])
                    /\ response' = [response EXCEPT
                                        !.blocks = toolUseBlocks(response, t.res.content)]
                    /\ EndCall(Block(name, <<>>), t.res, t.recorded)
                /\ UNCHANGED <<returned, content>>
    /\ choice' = "none"
    /\ handler' = NoHandler
    /\ UNCHANGED <<options, tools, turnCount, abortSeen>>
    /\ UNCHANGED diskVars
    /\ UNCHANGED pathVars
    /\ UNCHANGED sessionVars
    /\ UNCHANGED commandVars
    /\ UNCHANGED approvalVars
    /\ UNCHANGED recordVars
    /\ UNCHANGED readCall
    /\ UNCHANGED launch

\* default: return { error: `Unknown tool: ${name}` }
CallUnknownTool ==
    /\ BeginCall("unknown", <<>>)
    /\ EndCall(Block("unknown", <<>>), Error("unknown_tool"), FALSE)
    /\ choice' = "none"
    /\ handler' = NoHandler
    /\ UNCHANGED <<options, tools, response, turnCount, returned, content, abortSeen>>
    /\ UNCHANGED diskVars
    /\ UNCHANGED pathVars
    /\ UNCHANGED sessionVars
    /\ UNCHANGED commandVars
    /\ UNCHANGED approvalVars
    /\ UNCHANGED recordVars
    /\ UNCHANGED readCall
    /\ UNCHANGED launch
    /\ UNCHANGED advisorResponses

\* ------------------------------------------------------------------ mcp/tools: writeFile, applyPatch
IsWriteTool(name) == name \in {"write_file", "apply_patch"}

\* OperationResult, with the abort flag the handlers add to it
Op(ok, message) == [ok |-> ok, message |-> message, abort |-> FALSE]
OpAbort == [ok |-> FALSE, message |-> "abort", abort |-> TRUE]

\* if (!options.allowWrite && !options.requireApproval), the handlers' own gate
handlerDisabled(allowWrite, requireApproval) == ~allowWrite /\ ~requireApproval

\* A mutant of the commit of writeFile: fs.writeFile is not awaited, and the
\* handler returns before the file is there
writeFileCommitNotAwaited(fullPath) ==
    [dirs |-> dirs, files |-> files, touched |-> {}, op |-> Op(TRUE, "wrote")]

\* mkdir(dirname(fullPath), {recursive: true}); fs.writeFile(fullPath, content)
\* inside try/catch: the directories stay when the write fails
writeFileCommit(fullPath) ==
    IF ~mkdirOk(dirname(fullPath))
    THEN [dirs |-> dirs, files |-> files, touched |-> {}, op |-> Op(FALSE, "write_failed")]
    ELSE LET ds == dirs \cup Ancestors(dirname(fullPath))
         IN IF fsWriteOk(fullPath, ds)
            THEN [dirs |-> ds, files |-> (fullPath :> "new") @@ files,
                  touched |-> (ds \ dirs) \cup {fullPath}, op |-> Op(TRUE, "wrote")]
            ELSE [dirs |-> ds, files |-> files,
                  touched |-> ds \ dirs, op |-> Op(FALSE, "write_failed")]

\* fs.writeFile(fullPath, patchedContent) inside try/catch, without mkdir
applyPatchCommit(fullPath) ==
    IF fsWriteOk(fullPath, dirs)
    THEN [dirs |-> dirs, files |-> (fullPath :> "patched") @@ files,
          touched |-> {fullPath}, op |-> Op(TRUE, "patched")]
    ELSE [dirs |-> dirs, files |-> files, touched |-> {}, op |-> Op(FALSE, "patch_failed")]

\* A mutant of the abort check of executeToolCall: the check is left out and
\* the abort is serialised like any other result
toToolResultNoAbortCheck(w) ==
    [res |-> [is_error |-> FALSE, content |-> w.message], recorded |-> TRUE]

\* executeToolCall on the handler's OperationResult: the abort signal becomes
\* an error that is not recorded, anything else is JSON.stringify-ed content
toToolResult(w) ==
    IF w.abort THEN [res |-> Error("abort"), recorded |-> FALSE]
    ELSE [res |-> Content(w.message), recorded |-> TRUE]

EndWrite(use, w) ==
    LET t == toToolResult(w) IN EndCall(use, t.res, t.recorded)

Commit(use, fullPath) ==
    LET r == IF use.name = "write_file" THEN writeFileCommit(fullPath)
             ELSE applyPatchCommit(fullPath)
    IN /\ dirs' = r.dirs
       /\ files' = r.files
       /\ fsLog' = fsLog \cup r.touched
       /\ EndWrite(use, r.op)

\* A mutant of the dry-run gate of executeToolCall: the gate is left out
writesDisabledNever(opts) == FALSE

\* if (!options.apply && !options.approve)
writesDisabled(opts) == ~opts.apply /\ ~opts.approve

\* A mutant of the approval branch: only 'no' is turned away, 'skip' falls
\* through to the write
isTurnedAwayNoOnly(c) == c = "no"

\* if (choice === 'no' || choice === 'skip')
isTurnedAway(c) == c = "no" \/ c = "skip"

\* A mutant of the handlers: the target is read before the sandbox check
fileReadBeforeCheck(r) == r.path

\* existingContent / originalContent = await fsReadFile(fullPath), after
\* resolvePathInWorkspace has returned: the file the handler reads
fileRead(r) == IF r.ok THEN r.path ELSE <<>>

\* const patchedContent = diffApplyPatch(originalContent, unifiedDiff): the
\* patched text, or false for a diff that does not apply
diffApplyPatch(applies) == IF applies THEN "content" ELSE "false"

\* A mutant of applyPatch: the test of patchedContent is left out
patchRejectedNever(patchedContent) == FALSE

\* if (patchedContent === false)
patchRejected(patchedContent) == patchedContent = "false"

\* The call up to its first suspension: the gate of executeToolCall, the gates
\* of the handler, then either the result, or the approval prompt is opened.
\* `applies`: whether diffApplyPatch accepts the diff (read only by apply_patch).
CallWrite(name, path, applies) ==
    LET use == Block(name, path) IN
    /\ BeginCall(name, path)
    /\ choice' = "none"
    /\ IF writesDisabled(options)
       THEN /\ EndCall(use, Error("writes_disabled"), FALSE)
            /\ handler' = NoHandler
            /\ UNCHANGED <<dirs, files, fsLog>>
       ELSE IF handlerDisabled(options.apply, options.approve)
       THEN /\ EndWrite(use, Op(FALSE, "writes_disabled"))
            /\ handler' = NoHandler
            /\ UNCHANGED <<dirs, files, fsLog>>
       ELSE IF options.workspace = NoWorkspace
       THEN /\ EndWrite(use, Op(FALSE, "no_workspace"))
            /\ handler' = NoHandler
            /\ UNCHANGED <<dirs, files, fsLog>>
       ELSE LET r == resolvePathInWorkspace(path, options.workspace)
                patchedContent == IF name = "apply_patch" /\ r.ok
                                  THEN diffApplyPatch(applies) ELSE "none"
            IN
            /\ handler' = [read |-> fileRead(r), patched |-> patchedContent]
            /\ IF ~r.ok
               THEN /\ EndWrite(use, Op(FALSE, "outside_workspace"))
                    /\ UNCHANGED <<dirs, files, fsLog>>
               ELSE IF name = "apply_patch" /\ patchRejected(patchedContent)
               THEN /\ EndWrite(use, Op(FALSE, "patch_mismatch"))
                    /\ UNCHANGED <<dirs, files, fsLog>>
               ELSE IF options.approve
               THEN \* displayWriteProposal; await promptForApproval(...)
                    /\ pc' = "awaiting_approval"
                    /\ UNCHANGED <<toolResults, messages, result, toolCalls, idx, dirs,
                                   files, fsLog>>
               ELSE Commit(use, r.path)
    /\ UNCHANGED <<options, tools, response, turnCount, returned, content, abortSeen>>
    /\ UNCHANGED pathVars
    /\ UNCHANGED sessionVars
    /\ UNCHANGED commandVars
    /\ UNCHANGED approvalVars
    /\ UNCHANGED recordVars
    /\ UNCHANGED readCall
    /\ UNCHANGED launch
    /\ UNCHANGED advisorResponses

CallWriteFile == \E path \in TargetPaths : CallWrite("write_file", path, TRUE)

CallApplyPatch ==
    \E path \in TargetPaths, applies \in BOOLEAN : CallWrite("apply_patch", path, applies)

\* promptForApproval resolves; the handler and executeToolCall run to their end
ApprovalDecides ==
    /\ pc = "awaiting_approval"
    /\ \E c \in {"yes", "no", "skip", "abort"} :
        /\ choice' = c
        /\ abortSeen' = (abortSeen \/ c = "abort")
        /\ IF c = "abort"
           THEN /\ EndWrite(toolUse, OpAbort)
                /\ UNCHANGED diskVars
           ELSE IF isTurnedAway(c)
           THEN /\ EndWrite(toolUse, Op(FALSE, IF c = "skip" THEN "skipped" ELSE "rejected"))
                /\ UNCHANGED diskVars
           ELSE Commit(toolUse,
                       resolvePathInWorkspace(toolUse.path, options.workspace).path)
    /\ UNCHANGED <<options, tools, response, turnCount, toolCallCount, toolUse,
                   returned, content, dispatched>>
    /\ UNCHANGED pathVars
    /\ UNCHANGED sessionVars
    /\ UNCHANGED commandVars
    /\ UNCHANGED approvalVars
    /\ UNCHANGED recordVars
    /\ UNCHANGED readCall
    /\ UNCHANGED launch
    /\ UNCHANGED advisorResponses
    /\ UNCHANGED handler

\* ------------------------------------------------------------------ the run
Next ==
    \/ runClaudeAgent
    \/ ModelResponds
    \/ CallRepoSearch
    \/ CallReadFile
    \/ CallGitDiff
    \/ CallRunCommand
    \/ CallAskAdvisor
    \/ CallUnknownTool
    \/ CallWriteFile
    \/ CallApplyPatch
    \/ ApprovalDecides

Spec == Init /\ [][Next]_vars

\* Every model invocation, tool handler and approval prompt returns
Fairness ==
    /\ WF_vars(runClaudeAgent)
    /\ WF_vars(ModelResponds)
    /\ WF_vars(CallRepoSearch \/ CallReadFile \/ CallGitDiff \/ CallRunCommand
               \/ CallAskAdvisor \/ CallUnknownTool \/ CallWriteFile \/ CallApplyPatch)
    /\ WF_vars(ApprovalDecides)

SpecLive == Init /\ [][Next]_vars /\ Fairness

\* ------------------------------------------------------------------ index.ts: the ask command
workspaceMissingApplyOnly(opts) == opts.apply /\ opts.workspace = NoWorkspace

\* writesEnabled && !opts.workspace
workspaceMissing(opts) == (opts.apply \/ opts.approve) /\ opts.workspace = NoWorkspace

\* detectMissingKeys(...).anthropic
missingPrimaryKey(l) == ~getKey(l)

\* promptForMissingKeys: false without a terminal and when no key is entered
promptForMissingKeys(l) == l.isTTY /\ l.keyEntered

\* validateConfig looks at process.env.ANTHROPIC_API_KEY only
validateConfig(l) == l.envKey

\* what the task starts from: one budget step, the advisor the loop never reads
LaunchOptions == {o \in RunOptions : o.maxToolCalls = 1 /\ o.maxTurns = 1}

\* the ask command, or runOrchestrator called by processTask of the
\* interactive session, whose commands refuse a write mode without workspace
InitLaunch ==
    /\ InitPathIdle
    /\ InitSessionIdle
    /\ InitCommandIdle
    /\ InitApprovalIdle
    /\ InitRecordIdle
    /\ InitReadIdle
    /\ options \in LaunchOptions
    /\ dirs = {Root, <<"/", "a">>, MainWorkspace}
    /\ files = <<>>
    /\ InitLoop
    /\ launch \in [stage : {"ask", "gather"}, envKey : BOOLEAN, sessionKey : BOOLEAN,
                    isTTY : BOOLEAN, keyEntered : BOOLEAN, preflights : {0},
                    gitDiff : {"none"}, repoSearch : {"none"}, context : {{}}]
    \* the ask command starts without session keys
    /\ launch.stage = "ask" => ~launch.sessionKey
    \* a key is asked for only when none is there and a terminal is attached
    /\ launch.keyEntered => launch.stage = "ask" /\ launch.isTTY /\ ~launch.envKey
    /\ launch.stage = "gather" => ~launch.isTTY /\ ~workspaceMissing(options)

LaunchIdle ==
    /\ UNCHANGED <<options, tools>>
    /\ UNCHANGED pathVars
    /\ UNCHANGED sessionVars
    /\ UNCHANGED commandVars
    /\ UNCHANGED approvalVars
    /\ UNCHANGED recordVars
    /\ UNCHANGED readCall
    /\ UNCHANGED diskVars
    /\ UNCHANGED loopVars

\* the action of the ask command, up to runOrchestrator
AskCommand ==
    /\ launch.stage = "ask"
    /\ launch' =
         IF workspaceMissing(options)
         THEN [launch EXCEPT !.stage = "failed"]      \* throw new Error(...)
         ELSE IF missingPrimaryKey(launch) /\ ~promptForMissingKeys(launch)
         THEN [launch EXCEPT !.stage = "failed"]      \* process.exit(1)
         ELSE LET l == [launch EXCEPT !.sessionKey = missingPrimaryKey(launch)]
              IN  IF ~validateConfig(l)
                  THEN [l EXCEPT !.stage = "failed"]  \* throw new Error(...)
                  ELSE [l EXCEPT !.stage = "gather"]
    /\ LaunchIdle

PreflightOutcomes == {"found", "empty", "failed"}

gatherContextStopAtFailure(diff, search) ==
    [gitDiff |-> diff,
     repoSearch |-> IF diff = "failed" THEN "none" ELSE search,
     context |-> {part \in {"diff", "search"} :
                     \/ part = "diff" /\ diff = "found"
                     \/ part = "search" /\ diff # "failed" /\ search = "found"}]

\* the two sub-steps, each in its own try / catch
gatherContext(diff, search) ==
    [gitDiff |-> diff,
     repoSearch |-> search,
     context |-> {part \in {"diff", "search"} :
                     \/ part = "diff" /\ diff = "found"
                     \/ part = "search" /\ search = "found"}]

\* the gather_context node of the graph
GatherContext ==
    /\ launch.stage = "gather"
    /\ \E diff \in PreflightOutcomes, search \in PreflightOutcomes :
        launch' = [stage |-> "agent", preflights |-> launch.preflights + 1]
                      @@ gatherContext(diff, search) @@ launch
    /\ LaunchIdle

NextLaunch == AskCommand \/ GatherContext \/ Next

SpecLaunch == InitLaunch /\ [][NextLaunch]_vars

\* ------------------------------------------------------------------ interactive.ts: the REPL session
\* The runs of the tasks of one session, each reduced to its model calls, its
\* write_file requests and their approval prompts.
WriteModes == {"dry-run", "approve", "apply"}

InitSession ==
    /\ InitPathIdle
    /\ options = [apply |-> FALSE, approve |-> FALSE, workspace |-> MainWorkspace,
                  advisors |-> {}, maxToolCalls |-> MaxToolCalls, maxTurns |-> MaxTurns]
    /\ dirs = {Root, <<"/", "a">>, MainWorkspace}
    /\ files = <<>>
    /\ InitRest
    /\ InitCommandIdle
    /\ InitApprovalIdle
    /\ InitRecordIdle
    /\ InitReadIdle
    \* planOnly: false, messages: []
    /\ session \in [mode : WriteModes, lines : {0},
                     workspace : {NoWorkspace, MainWorkspace},
                     planOnly : {FALSE}, messages : {<<>>}]
    \* the interactive command refuses --apply / --approve without --workspace
    /\ session.mode # "dry-run" => session.workspace # NoWorkspace
    /\ tasks = [t \in 1..MaxTasks |-> NoTask]

\* session.options of the session, as buildTools and executeToolCall read them
sessionOptions(mode, workspace) ==
    [apply |-> mode = "apply", approve |-> mode = "approve", workspace |-> workspace,
     advisors |-> {}, maxToolCalls |-> MaxToolCalls, maxTurns |-> MaxTurns]

\* the names of a catalog
Names(catalog) == {catalog[i] : i \in DOMAIN catalog}

optionsOfTaskLive(t) == sessionOptions(session.mode, session.workspace)

\* const options = { ...session.options, task }: the copy processTask hands to
\* runOrchestrator, which every later step of the task reads
optionsOfTask(t) == sessionOptions(tasks[t].mode, tasks[t].workspace)

\* A mutant of processTask: the options copy keeps the session's write mode
\* in plan-only mode
taskModeOfSession(mode, isPlanOnly) == mode

\* ...(isPlanOnly ? { apply: false, approve: false, dryRun: true } : {}): the
\* write mode of the options copy
taskMode(mode, isPlanOnly) == IF isPlanOnly THEN "dry-run" ELSE mode

\* A mutant of the plan confirmation: the workspace is not asked for
planConfirmedAnyWorkspace(mode, workspace) ==
    IF mode = "dry-run" THEN "approve" ELSE mode

\* processTask after a confirmed plan: without a workspace nothing changes,
\* otherwise a session in dry-run is switched to approve
planConfirmed(mode, workspace) ==
    IF workspace = NoWorkspace THEN mode
    ELSE IF mode = "dry-run" THEN "approve" ELSE mode

\* the tasks whose promptPlanConfirmation is open: each has its own
\* rl.once('line', ...) listener
Confirming(ts) == {t \in 1..MaxTasks : ts[t].pc = "confirming"}

\* readline emits each line to every 'line' listener: to the handler of the
\* session (rl.on) and to the listeners of the open plan confirmations
\* (rl.once). The confirmations are resolved by the line whatever else it is;
\* `proceed`: the line is y or yes.
confirmedTasks(ts) ==
    [t \in 1..MaxTasks |->
        IF ts[t].pc = "confirming" THEN [ts[t] EXCEPT !.pc = "done"] ELSE ts[t]]

confirmedSession(s, ts, proceed) ==
    IF Confirming(ts) # {} /\ proceed
    THEN [s EXCEPT !.mode = planConfirmed(s.mode, s.workspace)]
    ELSE s

\* catch (error) { console.log(renderError(...)) }: session.planOnly is left
\* as it is
planOnlyAfterFailure(flag) == flag

\* rl.on('line', async (line) => ...) with a line that is neither empty nor a
\* built-in command: processTask reads session.planOnly, pushes the user
\* message, copies session.options and awaits runOrchestrator, up to its first
\* model call (the catalog is built from the copy). The handler is entered for
\* every line, whether or not an earlier task is still in flight. `yes`: the
\* line is y or yes.
SubmitTask ==
    /\ session.lines < MaxTasks
    /\ \E yes \in BOOLEAN :
        LET n == session.lines + 1
            mode == taskMode(session.mode, session.planOnly)
            started == [tasks EXCEPT ![n] =
                    [pc |-> "awaiting_model", toolCallCount |-> 0, mode |-> mode,
                     workspace |-> session.workspace,
                     catalog |-> Names(buildTools(sessionOptions(mode, session.workspace))),
                     writes |-> 0, planOnly |-> session.planOnly]]
            pushed == [session EXCEPT
                          !.lines = n,
                          !.messages = Append(@, [role |-> "user", task |-> n])]
        IN /\ session' = confirmedSession(pushed, tasks, yes)
           /\ tasks' = confirmedTasks(started)
    /\ UNCHANGED <<options, tools>>
    /\ UNCHANGED pathVars
    /\ UNCHANGED commandVars
    /\ UNCHANGED approvalVars
    /\ UNCHANGED recordVars
    /\ UNCHANGED readCall
    /\ UNCHANGED launch
    /\ UNCHANGED diskVars
    /\ UNCHANGED loopVars

\* a line with !mode <m>, !dry, !approve or !apply: setWriteMode on
\* session.options; a write mode is refused while the session has no workspace
SetWriteMode ==
    /\ \E m \in WriteModes :
        /\ m # "dry-run" => session.workspace # NoWorkspace
        /\ session' = confirmedSession([session EXCEPT !.mode = m], tasks, FALSE)
    /\ tasks' = confirmedTasks(tasks)
    /\ UNCHANGED <<options, tools>>
    /\ UNCHANGED pathVars
    /\ UNCHANGED commandVars
    /\ UNCHANGED approvalVars
    /\ UNCHANGED recordVars
    /\ UNCHANGED readCall
    /\ UNCHANGED launch
    /\ UNCHANGED diskVars
    /\ UNCHANGED loopVars

\* the directories !workspace is given in the session
SessionWorkspaces == {<<"/", "a">>, MainWorkspace}

\* a line with !workspace <path> naming an existing directory
SetWorkspace ==
    /\ \E w \in SessionWorkspaces :
        session' = confirmedSession([session EXCEPT !.workspace = w], tasks, FALSE)
    /\ tasks' = confirmedTasks(tasks)
    /\ UNCHANGED <<options, tools>>
    /\ UNCHANGED pathVars
    /\ UNCHANGED commandVars
    /\ UNCHANGED approvalVars
    /\ UNCHANGED recordVars
    /\ UNCHANGED readCall
    /\ UNCHANGED launch
    /\ UNCHANGED diskVars
    /\ UNCHANGED loopVars

\* a line with !plan: session.planOnly = !session.planOnly
TogglePlan ==
    /\ session' = confirmedSession([session EXCEPT !.planOnly = ~@], tasks, FALSE)
    /\ tasks' = confirmedTasks(tasks)
    /\ UNCHANGED <<options, tools>>
    /\ UNCHANGED pathVars
    /\ UNCHANGED commandVars
    /\ UNCHANGED approvalVars
    /\ UNCHANGED recordVars
    /\ UNCHANGED readCall
    /\ UNCHANGED launch
    /\ UNCHANGED diskVars
    /\ UNCHANGED loopVars

\* a line with !clear: session.messages = []
ClearHistory ==
    /\ session.messages # <<>>
    /\ session' = confirmedSession([session EXCEPT !.messages = <<>>], tasks, FALSE)
    /\ tasks' = confirmedTasks(tasks)
    /\ UNCHANGED <<options, tools>>
    /\ UNCHANGED pathVars
    /\ UNCHANGED commandVars
    /\ UNCHANGED approvalVars
    /\ UNCHANGED recordVars
    /\ UNCHANGED readCall
    /\ UNCHANGED launch
    /\ UNCHANGED diskVars
    /\ UNCHANGED loopVars

\* an empty line while a plan confirmation is open: the handler of the
\* session skips it, the confirmation takes it as a no
EmptyLine ==
    /\ Confirming(tasks) # {}
    /\ tasks' = confirmedTasks(tasks)
    /\ UNCHANGED <<session, options, tools>>
    /\ UNCHANGED pathVars
    /\ UNCHANGED commandVars
    /\ UNCHANGED approvalVars
    /\ UNCHANGED recordVars
    /\ UNCHANGED readCall
    /\ UNCHANGED launch
    /\ UNCHANGED diskVars
    /\ UNCHANGED loopVars

\* runOrchestrator of task t returned: the assistant message is pushed; after
\* a plan-only task the flag is cleared and the plan confirmation is opened
runReturned(s, ts, t) ==
    [session |-> [s EXCEPT
                     !.messages = Append(@, [role |-> "assistant", task |-> t]),
                     !.planOnly = IF ts[t].planOnly THEN FALSE ELSE @],
     pc |-> IF ts[t].planOnly THEN "confirming" ELSE "done"]

\* runOrchestrator of task t threw: the catch block of processTask
runThrew(s, ts, t) ==
    [session |-> [s EXCEPT !.planOnly = planOnlyAfterFailure(@)], pc |-> "done"]

\* The model of task t answers: its final text, a failure of the call, or a
\* write_file request, which is checked against the budget and dispatched up
\* to its first suspension: refused without a write mode, committed in apply
\* mode, and waiting for the approval prompt where approve is set.
TaskModelResponds(t) ==
    /\ tasks[t].pc = "awaiting_model"
    /\ \E answer \in {"final", "write_file", "throws"} :
        LET end == IF answer = "throws" THEN runThrew(session, tasks, t)
                   ELSE runReturned(session, tasks, t)
        IN
        IF answer # "write_file" \/ toolLimitHit(tasks[t].toolCallCount, 1, options.maxToolCalls)
        THEN /\ tasks' = [tasks EXCEPT ![t].pc = end.pc]
             /\ session' = end.session
        ELSE /\ tasks' = [tasks EXCEPT ![t] =
                    IF writesDisabled(optionsOfTask(t))
                       \/ optionsOfTask(t).workspace = NoWorkspace
                    THEN [@ EXCEPT !.toolCallCount = @ + 1]
                    ELSE IF optionsOfTask(t).approve
                    THEN [@ EXCEPT !.toolCallCount = @ + 1, !.pc = "awaiting_approval"]
                    ELSE [@ EXCEPT !.toolCallCount = @ + 1, !.writes = @ + 1]]
             /\ UNCHANGED session
    /\ UNCHANGED <<options, tools>>
    /\ UNCHANGED pathVars
    /\ UNCHANGED commandVars
    /\ UNCHANGED approvalVars
    /\ UNCHANGED recordVars
    /\ UNCHANGED readCall
    /\ UNCHANGED launch
    /\ UNCHANGED diskVars
    /\ UNCHANGED loopVars

\* promptForApproval of task t resolves, the write is committed on yes, and
\* the loop of the task calls the model again
TaskApprovalDecides(t) ==
    /\ tasks[t].pc = "awaiting_approval"
    /\ \E c \in ApprovalChoices :
        tasks' = [tasks EXCEPT ![t].pc = "awaiting_model",
                               ![t].writes = IF c = "yes" THEN @ + 1 ELSE @]
    /\ UNCHANGED <<session, options, tools>>
    /\ UNCHANGED pathVars
    /\ UNCHANGED commandVars
    /\ UNCHANGED approvalVars
    /\ UNCHANGED recordVars
    /\ UNCHANGED readCall
    /\ UNCHANGED launch
    /\ UNCHANGED diskVars
    /\ UNCHANGED loopVars

NextSession ==
    \/ SubmitTask
    \/ SetWriteMode
    \/ SetWorkspace
    \/ TogglePlan
    \/ ClearHistory
    \/ EmptyLine
    \/ \E t \in 1..MaxTasks : TaskModelResponds(t)
    \/ \E t \in 1..MaxTasks : TaskApprovalDecides(t)

SpecSession == InitSession /\ [][NextSession]_vars

\* ================================================================== properties
IsPrefixSeq(a, b) == Len(a) <= Len(b) /\ SubSeq(b, 1, Len(a)) = a

\* p is an absolute normalised path that is W itself or a descendant of W:
\* the segments of W are the first segments of p
Within(p, workspace) ==
    /\ isAbsolute(p)
    /\ FromSegs(SegsOf(p)) = p
    /\ IsPrefixSeq(SegsOf(workspace), SegsOf(p))

WriteMode == IF options.apply THEN "apply" ELSE IF options.approve THEN "approve" ELSE "dry-run"

\* this step is the for loop handing a block named `names` to onToolCall
Dispatches(names) == dispatched' = dispatched + 1 /\ toolUse'.name \in names

WriteTools == {"write_file", "apply_patch"}
ReadTools == {"repo_search", "read_file", "git_diff", "run_command"}

DiskUnchanged == dirs' = dirs /\ files' = files

LoopGoesOn == pc' \in {"dispatch", "awaiting_model"} /\ returned' = "none"

\* C1: whenever resolvePathInWorkspace returns (does not throw), the path it
\* returns is absolute and is the workspace itself or a descendant of it.
C1_ResolveStaysInWorkspace ==
    (rpResult.called /\ rpResult.ok) => Within(rpResult.path, rpWorkspace)

\* a target with a '..' segment that resolves below the workspace
C1_Witness ==
    /\ rpResult.called
    /\ rpResult.ok
    /\ \E i \in 1..Len(split(rpTarget)) : split(rpTarget)[i] = DotDot
    /\ rpResult.path # rpWorkspace

\* C4: the catalog holds the four read-class tools always, write_file and
\* apply_patch exactly when apply or approve is set, ask_<advisor> exactly for
\* the enabled advisors, and nothing else.
C4_CatalogByModeAndAdvisors ==
    pc # "init" =>
        LET names == {tools[i] : i \in 1..Len(tools)} IN
        /\ ReadTools \subseteq names
        /\ \A w \in WriteTools : w \in names <=> WriteMode \in {"approve", "apply"}
        /\ "ask_openai" \in names <=> "openai" \in options.advisors
        /\ "ask_gemini" \in names <=> "gemini" \in options.advisors
        /\ names \subseteq ReadTools \cup WriteTools \cup {"ask_openai", "ask_gemini"}
        /\ Len(tools) = Cardinality(names)

\* approve mode with gemini alone: the write tools and ask_gemini are offered
C4_Witness ==
    /\ pc # "init"
    /\ WriteMode = "approve"
    /\ options.advisors = {"gemini"}
    /\ tools = <<"repo_search", "read_file", "git_diff", "run_command",
                 "write_file", "apply_patch", "ask_gemini">>

\* C2 (as stated): every directory created and every file written is inside
\* the workspace, and a write request whose target resolves outside the
\* workspace, or that arrives without a workspace, leaves the disk unchanged.
C2_Original_AllMutationsInside ==
    \A p \in fsLog : options.workspace # NoWorkspace /\ Within(p, options.workspace)

IsAncestorOf(p, workspace) == IsPrefixSeq(SegsOf(p), SegsOf(workspace))

TargetOutside(use) ==
    \/ options.workspace = NoWorkspace
    \/ ~Within(resolve(options.workspace, use.path), options.workspace)

\* C2 (amended): every file written is inside the workspace, every directory
\* created is inside the workspace or is a directory above it that was
\* missing, and a write request whose target resolves outside the workspace,
\* or that arrives without a workspace, leaves the disk unchanged.
C2_WritesInsideWorkspace ==
    /\ [](/\ options.workspace = NoWorkspace => fsLog = {}
          /\ \A p \in fsLog :
                \/ Within(p, options.workspace)
                \/ p \in dirs /\ IsAncestorOf(p, options.workspace)
          /\ \A p \in DOMAIN files :
                files[p] # "old" => p \in fsLog /\ Within(p, options.workspace))
    /\ [][(Dispatches(WriteTools) /\ TargetOutside(toolUse')) => DiskUnchanged]_vars
    /\ [][fsLog' = fsLog \cup ((dirs' \ dirs) \cup {p \in DOMAIN files' :
                p \notin DOMAIN files \/ files'[p] # files[p]})]_vars

\* apply mode: a write_file to ../x was turned away and x was written
C2_Witness ==
    /\ options.apply
    /\ toolUse.name = "write_file"
    /\ toolUse.path = <<".", ".", "/", "x">>
    /\ result.content = "outside_workspace"
    /\ \E p \in DOMAIN files : files[p] = "new"

\* C3: in dry-run no step changes the disk or opens an approval prompt, and a
\* write_file or apply_patch request is answered with the 'writes disabled'
\* error result while the loop goes on.
C3_DryRunNeverWrites ==
    /\ [](WriteMode = "dry-run" => pc # "awaiting_approval" /\ fsLog = {})
    /\ [][WriteMode = "dry-run" => DiskUnchanged]_vars
    /\ [][(WriteMode = "dry-run" /\ Dispatches(WriteTools)) =>
            /\ result' = Error("writes_disabled")
            /\ LoopGoesOn]_vars

\* dry-run with a workspace set: a write request got the error and the model
\* is called again
C3_Witness ==
    /\ WriteMode = "dry-run"
    /\ options.workspace # NoWorkspace
    /\ toolUse.name \in WriteTools
    /\ result = Error("writes_disabled")
    /\ pc = "awaiting_model"

\* C5: in approve mode the disk changes only in the step in which the approval
\* prompt of the current call is answered yes; on no or skip the disk is left
\* as it is, the result is the non-error 'rejected' / 'skipped' message, and
\* the loop goes on.
C5_ApproveWritesOnlyOnYes ==
    /\ [][(WriteMode = "approve" /\ ~DiskUnchanged) =>
            pc = "awaiting_approval" /\ choice' = "yes"]_vars
    /\ [][(WriteMode = "approve" /\ pc = "awaiting_approval" /\ choice' \in {"no", "skip"}) =>
            /\ DiskUnchanged
            /\ result' = Content(IF choice' = "skip" THEN "skipped" ELSE "rejected")
            /\ LoopGoesOn]_vars

\* approve mode, write_file x answered skip: x is not created and the model is
\* called again
C5_Witness ==
    /\ WriteMode = "approve"
    /\ toolUse = [id |-> 1, name |-> "write_file", path |-> <<"x">>]
    /\ choice = "skip"
    /\ result = Content("skipped")
    /\ files = <<>>
    /\ pc = "awaiting_model"

\* C6 (as stated): once a prompt was answered abort, every later write_file or
\* apply_patch request gets the abort error, opens no prompt and leaves the
\* disk unchanged.
C6_Original_AbortSuppressesWrites ==
    [][(abortSeen /\ Dispatches(WriteTools)) =>
        /\ result' = Error("abort")
        /\ pc' # "awaiting_approval"
        /\ DiskUnchanged]_vars

\* C7: answering abort does not end the run: the call gets the abort error
\* result and the loop goes on; after an abort the read-class tools are still
\* dispatched when the for loop is at a block, and the model is still called.
C7_AbortDoesNotEndRun ==
    /\ [][(pc = "awaiting_approval" /\ choice' = "abort") =>
            /\ result' = Error("abort")
            /\ LoopGoesOn]_vars
    /\ [][(abortSeen /\ Dispatches(ReadTools)) =>
            /\ result' \in {Content("result"), Content("advisor_tool_request"),
                             Content("file_does_not_exist"),
                            Content("command_not_allowed"), Error("handler_error"),
                            Error("access_denied"), Error("read_failed")}
            /\ LoopGoesOn]_vars
    /\ []((abortSeen /\ pc = "dispatch") =>
            /\ ENABLED CallRepoSearch
            /\ ENABLED CallReadFile
            /\ ENABLED CallGitDiff
            /\ ENABLED CallRunCommand)
    /\ []((abortSeen /\ pc = "awaiting_model") => ENABLED ModelResponds)

\* after an abort a read_file was served and the run ended with the final answer
C7_Witness ==
    /\ abortSeen
    /\ toolUse.name = "read_file"
    /\ result = Content("result")
    /\ returned = "final"

\* C8: the two counters never decrease, at most maxToolCalls invocations are
\* dispatched, and tools are dispatched only in turns 1..maxTurns.
C8_BudgetsRespected ==
    /\ [][turnCount' >= turnCount /\ toolCallCount' >= toolCallCount]_vars
    /\ [](dispatched <= options.maxToolCalls /\ toolCallCount = dispatched)
    /\ [](pc \in {"dispatch", "awaiting_approval"} => turnCount <= options.maxTurns)

\* both budgets used up to their limit
C8_Witness ==
    /\ options.maxToolCalls = MaxToolCalls
    /\ options.maxTurns = MaxTurns
    /\ dispatched = options.maxToolCalls
    /\ turnCount = options.maxTurns
    /\ pc = "awaiting_model"

C10_Original_FittingCallsDispatched ==
    returned = "max_tool_calls" => dispatched = options.maxToolCalls

\* C10 (amended): a tool-use turn within the turn limit that asks for more
\* invocations than the budget has left is stopped before its first
\* invocation: none of them is dispatched and the run returns on the tool
\* call limit; the run returns on that limit in no other case.
C10_OverBudgetTurnNotDispatched ==
    /\ [][(pc = "awaiting_model" /\ response'.stop_reason = "tool_use"
            /\ turnCount' <= options.maxTurns)
          => ((toolCallCount + response'.blocks > options.maxToolCalls)
               <=> returned' = "max_tool_calls")]_vars
    /\ [][returned' = "max_tool_calls" =>
            /\ pc' = "done"
            /\ dispatched' = dispatched
            /\ toolCalls' = toolCalls
            /\ DiskUnchanged]_vars
    /\ [](pc = "done" => ~ENABLED Next)

\* maxToolCalls = 1 and a first turn with two requests: nothing was dispatched
C10_Witness ==
    /\ options.maxToolCalls = 1
    /\ returned = "max_tool_calls"
    /\ turnCount = 1
    /\ response.blocks = 2
    /\ dispatched = 0

\* C11: when the loop stops on a budget, the content returned is the text of
\* the response that triggered the stop followed by the notice of the limit
\* that was hit with its configured value, and the step that decides to stop
\* dispatches no tool, records nothing, changes no file and ends the run.
C11_BudgetStopContent ==
    /\ [](returned = "max_turns" =>
            /\ content = [text |-> response.text, notice |-> "max_turns",
                          limit |-> options.maxTurns]
            /\ response.text = turnCount)
    /\ [](returned = "max_tool_calls" =>
            /\ content = [text |-> response.text, notice |-> "max_tool_calls",
                          limit |-> options.maxToolCalls]
            /\ response.text = turnCount)
    /\ [][(returned = "none" /\ returned' \in {"max_turns", "max_tool_calls"}) =>
            /\ pc = "awaiting_model"
            /\ pc' = "done"
            /\ dispatched' = dispatched
            /\ toolCalls' = toolCalls
            /\ DiskUnchanged]_vars
    /\ [][(returned \in {"max_turns", "max_tool_calls"}) =>
            (dispatched' = dispatched /\ DiskUnchanged)]_vars

\* the turn limit is hit by the third response after two turns of tool calls
C11_Witness ==
    /\ returned = "max_turns"
    /\ options.maxTurns = 2
    /\ dispatched = 2
    /\ content = [text |-> 3, notice |-> "max_turns", limit |-> 2]

\* the ids of the first n blocks of a response, in request order
IdsUpTo(n) == [i \in 1..n |-> i]

\* C12: while a turn is dispatched the results collected are those of the
\* blocks before the one the loop is at, each once and in order; a block is
\* dispatched only when it is the first one without a result; and the batch
\* sent with the next model call holds exactly one result per requested block.
C12_OneResultPerInvocation ==
    /\ []((pc \in {"dispatch", "awaiting_approval"}) =>
            /\ idx <= response.blocks
            /\ toolResults = IdsUpTo(idx - 1))
    /\ [](pc = "awaiting_approval" => toolUse.id = idx)
    /\ [][dispatched' # dispatched =>
            /\ dispatched' = dispatched + 1
            /\ toolUse'.id = idx
            /\ toolUse'.id = Len(toolResults) + 1]_vars
    /\ [][toolResults' # toolResults =>
            \/ toolResults' = <<>>
            \/ toolResults' = Append(toolResults, toolUse'.id)]_vars
    /\ [][messages' > messages =>
            \/ messages = 0
            \/ /\ messages' = messages + 2
               /\ pc' = "awaiting_model"
               /\ toolResults' = IdsUpTo(response'.blocks)]_vars

\* a turn of two requests was answered with the two results, in order
C12_Witness ==
    /\ pc = "awaiting_model"
    /\ response.blocks = 2
    /\ toolResults = <<1, 2>>
    /\ messages = 3
    /\ dispatched = 2

\* model invocations issued, and responses received, so far
Issued == (messages + 1) \div 2
Received == turnCount + (IF returned = "final" THEN 1 ELSE 0)
InFlight == Issued - Received

\* C13: at most one model invocation is in flight, exactly while the loop
\* awaits the model; tools are dispatched and approval prompts are pending
\* only while none is in flight; and a model invocation is issued only when
\* every block of the previous turn has its result.
C13_StrictlySequential ==
    /\ [](InFlight \in {0, 1})
    /\ [](InFlight = 1 <=> pc = "awaiting_model")
    /\ [](pc = "awaiting_approval" => InFlight = 0)
    /\ [][dispatched' # dispatched => InFlight = 0]_vars
    /\ [][(messages > 0 /\ messages' > messages) =>
            /\ Issued' = Issued + 1
            /\ Received' = Issued
            /\ Len(toolResults') = response'.blocks]_vars

\* the second model invocation is in flight after a turn of two tool calls
C13_Witness ==
    /\ InFlight = 1
    /\ Issued = 2
    /\ response.blocks = 2
    /\ Len(toolResults) = 2

\* the approval prompts that are open
PendingPrompts ==
    (IF pc = "awaiting_approval" THEN 1 ELSE 0)
    + Cardinality({t \in 1..MaxTasks : tasks[t].pc = "awaiting_approval"})

\* C14 (as stated): at most one approval prompt is pending at any time,
\* whatever the model requests and whatever lines are entered in the session.
C14_Original_OnePromptPending == PendingPrompts <= 1

\* C15 (as stated): after a run the ledger holds one ToolCallRecord per tool
\* invocation that was dispatched to executeToolCall.
C15_Original_LedgerCountsDispatches ==
    pc = "done" => toolCalls = dispatched

\* C18 (as stated): a write_file or apply_patch call whose target is outside
\* the workspace gets a tool result flagged as an error, and the loop goes on.
C18_Original_SandboxErrorFlagged ==
    [][(Dispatches(WriteTools) /\ ~writesDisabled(options)
            /\ options.workspace # NoWorkspace /\ TargetOutside(toolUse')) =>
        /\ result'.is_error
        /\ LoopGoesOn]_vars

\* C16 (as stated): executeToolCall never throws, so every dispatched call
\* gets a tool result (or is waiting for its approval prompt).
C16_Original_DispatcherNeverThrows ==
    /\ [](returned # "threw")
    /\ [][dispatched' # dispatched =>
            \/ pc' = "awaiting_approval"
            \/ toolResults' = Append(toolResults, toolUse'.id)]_vars

\* the file a read_file request names
ReadTarget(path) == IF isAbsolute(path) THEN path ELSE FromSegs(SegsOf(Cwd \o <<"/">> \o path))

C19_Original_OnlyAllowListedRun ==
    (rcResult.called /\ rcResult.spawned) =>
        LET n == toLowerCase(trim(rcCmd)) IN
        \E i \in 1..Len(ALLOWED_COMMANDS) :
            \/ n = ALLOWED_COMMANDS[i]
            \/ startsWith(n, ALLOWED_COMMANDS[i] \o <<" ">>)

\* C20 (as stated): a run_command request for a command that is not allowed
\* gets a tool result flagged as an error that lists the allowed commands.
C20_Original_RefusalIsErrorResult ==
    [][(Dispatches({"run_command"}) /\ toolUse'.path # <<>>
            /\ ~isCommandAllowed(toolUse'.path)) =>
        /\ result'.is_error
        /\ result'.content = "command_not_allowed"]_vars

\* ------------------------------------------------------------------ C21
\* the line of the prompt as the code compares it
Normalized == trim(toLowerCase(apInput.answer))

\* the prompt read a line: no terminal under the chooser, or the line prompt
ReadALine ==
    \/ apChoice.prompt = "chooser" /\ ~apInput.isTTY
    \/ apChoice.prompt = "line"

YesWords == {<<"y">>, <<"y", "e", "s">>}
NoWords == {<<"n">>, <<"n", "o">>}
SkipWords == {<<"s">>, <<"s", "k", "i", "p">>}
AbortWords == {<<"a">>, <<"a", "b", "o", "r", "t">>}

\* C21: promptForApproval resolves to one of yes, no, skip, abort; where it
\* read a line, it resolves to yes only for y / yes (trimmed, any case), and
\* to no for the empty line and every line that is none of the eight words.
C21_ApprovalExhaustiveSafeDefault ==
    apChoice.prompt # "none" =>
        /\ apChoice.choice \in ApprovalChoices
        /\ ReadALine =>
            /\ apChoice.choice = "yes" <=> Normalized \in YesWords
            /\ Normalized \notin (YesWords \cup NoWords \cup SkipWords \cup AbortWords)
                   => apChoice.choice = "no"

\* without a terminal, the line " Y " is answered yes and the line "ye" no
C21_Witness ==
    /\ apChoice.prompt = "chooser"
    /\ ~apInput.isTTY
    /\ \/ apInput.answer = <<" ", "Y", " ">> /\ apChoice.choice = "yes"
       \/ apInput.answer = <<"y", "e">> /\ apChoice.choice = "no"

\* ------------------------------------------------------------------ C22
\* what the four answers of the claim stand for
Offered(word) ==
    IF word \in YesWords THEN "yes"
    ELSE IF word \in SkipWords THEN "skip"
    ELSE IF word \in AbortWords THEN "abort"
    ELSE "no"

\* C22: where promptForApproval reads a line without a terminal, y / yes is
\* answered yes, n / no no, s / skip skip and a / abort abort.
C22_Original_FallbackOffersAbort ==
    (apChoice.prompt # "none" /\ ~apInput.isTTY) => apChoice.choice = Offered(Normalized)

\* ------------------------------------------------------------------ C23
\* C23: in apply mode (apply set, whether or not approve is set as well)
\* write_file and apply_patch never reach promptForApproval: no call waits
\* for an approval and no call ends with an approval choice.
C23_Original_ApplyNeverPrompts ==
    WriteMode = "apply" => pc # "awaiting_approval" /\ choice = "none"

\* ------------------------------------------------------------------ C24
\* the agent loop was started: a model was invoked or a tool dispatched
LoopStarted == messages > 0 \/ dispatched > 0 \/ tools # <<>>

\* C24: with no primary key (neither in the environment nor entered for the
\* session), or with apply / approve and no workspace, no model is invoked,
\* no tool is dispatched and nothing is written; the run ends failed as soon
\* as the ask command or claude_agent has looked.
C24_FailsBeforeTheLoop ==
    (\/ ~launch.envKey /\ ~launch.sessionKey
     \/ (options.apply \/ options.approve) /\ options.workspace = NoWorkspace) =>
        /\ ~LoopStarted
        /\ fsLog = {}
        /\ launch.stage \in {"ask", "failed", "gather", "agent"}
        /\ launch.stage = "agent" => pc \in {"init", "done"}
        /\ pc = "done" => returned = "no_key"

\* the ask command has refused approve without a workspace, and claude_agent
\* has thrown for the missing key
C24_Witness ==
    /\ launch.stage = "failed"
    /\ options.approve /\ ~options.apply /\ options.workspace = NoWorkspace
    /\ launch.envKey

\* claude_agent has thrown for the missing key, after the preflight
C24_WitnessNoKey == returned = "no_key" /\ launch.preflights = 1

\* ------------------------------------------------------------------ C27
\* C27: gather_context runs once, before the first model invocation; both of
\* its sub-steps are attempted whatever the other one did; it hands over to
\* claude_agent whatever they did; and it leaves the ledger, the counters of
\* the budgets and the conversation as they were.
C27_PreflightOnceBeforeTheLoop ==
    /\ launch.preflights <= 1
    /\ LoopStarted => launch.preflights = 1
    /\ launch.preflights = 1 =>
        /\ launch.gitDiff \in PreflightOutcomes
        /\ launch.repoSearch \in PreflightOutcomes
        /\ launch.stage = "agent"
        /\ ("search" \in launch.context) = (launch.repoSearch = "found")
    /\ (launch.preflights = 1 /\ pc = "init") =>
        toolCalls = 0 /\ toolCallCount = 0 /\ turnCount = 0 /\ dispatched = 0
            /\ messages = 0

\* git diff failed, the search found something, and the run reached its
\* final answer after a dispatched tool call
C27_Witness ==
    /\ launch.gitDiff = "failed"
    /\ launch.repoSearch = "found"
    /\ launch.preflights = 1
    /\ returned = "final"
    /\ dispatched = 1

\* ------------------------------------------------------------------ C25
\* this step pushes an AdvisorResponse with its error set
AdvisorFails ==
    /\ Len(advisorResponses') = Len(advisorResponses) + 1
    /\ advisorResponses'[Len(advisorResponses')].error

\* C25: an advisor call that fails (no key, provider error) is answered to
\* the model as an error tool result, is appended to the advisor responses of
\* the run with its error set, and leaves the run going: the for loop takes its
\* next block or the model is called again. No advisor response is ever
\* removed.
C25_AdvisorFailureIsNotFatal ==
    [][/\ AdvisorFails =>
            /\ result' = Error("advisor_error")
            /\ toolResults' = Append(toolResults, toolUse'.id)
            /\ returned' = returned
            /\ pc' \in {"dispatch", "awaiting_model"}
       /\ IsPrefixSeq(advisorResponses, advisorResponses')]_vars

\* a run whose only tool call was a failed advisor call reached its final answer
C25_Witness ==
    /\ returned = "final"
    /\ Len(advisorResponses) = 1
    /\ advisorResponses[1].error
    /\ result = Error("advisor_error")

\* ------------------------------------------------------------------ C26
\* C26: every dispatch is the for loop taking the next tool_use block of the
\* model's response; a step in which an advisor answers is that one dispatch
\* and nothing else: its text becomes the content of the tool result, the
\* blocks of the response stay as the model gave them, and neither the disk
\* nor a command is touched.
C26_OnlyPrimaryRequestsDispatched ==
    [][/\ (dispatched' # dispatched) =>
            /\ pc = "dispatch"
            /\ dispatched' = dispatched + 1
            /\ idx <= response.blocks
            /\ toolUse'.id = idx
       /\ (advisorResponses' # advisorResponses) =>
            /\ response' = response
            /\ toolUse'.name \in {"ask_openai", "ask_gemini"}
            /\ ~advisorResponses'[Len(advisorResponses')].error =>
                   result' \in {Content(r.response) : r \in AdvisorResults}
            /\ UNCHANGED diskVars
            /\ UNCHANGED commandVars]_vars

\* an advisor answered with a text that reads like a request for a tool, and
\* the run reached its final answer with that one dispatch only
C26_Witness ==
    /\ returned = "final"
    /\ dispatched = 1
    /\ advisorResponses = <<[error |-> FALSE]>>
    /\ result = Content("advisor_tool_request")

\* ------------------------------------------------------------------ C28
\* this step dispatches a write-class block right after a write-class block
\* of the same turn, for the same input path, that was committed
SecondWriteToSamePath ==
    /\ Dispatches(WriteTools)
    /\ toolUse.name \in WriteTools
    /\ toolUse'.id = toolUse.id + 1
    /\ toolUse'.path = toolUse.path
    /\ result \in {Content("wrote"), Content("patched")}

\* C28: the blocks of a turn are dispatched in the order of the response, each
\* one after the one before it has returned its result (no call starts while
\* another one waits for its handler or for an approval); a write-class call
\* that follows a committed write-class call to the same path in the same turn
\* finds the file with the content the earlier one left.
C28_WritesOfATurnDoNotInterleave ==
    [][/\ (dispatched' # dispatched) =>
            /\ pc = "dispatch"
            /\ toolUse'.id = idx
            /\ Len(toolResults) = idx - 1
       /\ SecondWriteToSamePath =>
            LET p == resolvePathInWorkspace(toolUse.path, options.workspace).path
            IN  /\ p \in DOMAIN files
                /\ files[p] = IF toolUse.name = "write_file" THEN "new" ELSE "patched"]_vars

\* the second block of a turn patched x in a workspace directory that this
\* run created: the first block was the write_file that created x
C28_Witness ==
    /\ toolUse = [id |-> 2, name |-> "apply_patch", path |-> <<"x">>]
    /\ result = Content("patched")
    /\ dispatched = 2
    /\ MainWorkspace \in fsLog
    /\ files[<<"/", "a", "/", "b", "/", "x">>] = "patched"

\* ------------------------------------------------------------------ C29
\* task t has been started and has not returned
InFlightTask(t) == tasks[t].pc \in {"awaiting_model", "awaiting_approval"}

\* C29: whatever is entered in the session while task t is in flight, the
\* write mode, the workspace and the catalog of t stay those of its start,
\* and its write calls are gated by them: t is asked for an approval only if
\* it was started in approve mode, and commits a write only if it was started
\* in approve or apply mode with a workspace, whatever the session says now.
C29_TaskOptionsFixedAtStart ==
    [][\A t \in 1..MaxTasks : InFlightTask(t) =>
        /\ tasks'[t].mode = tasks[t].mode
        /\ tasks'[t].workspace = tasks[t].workspace
        /\ tasks'[t].catalog = tasks[t].catalog
        /\ tasks'[t].pc = "awaiting_approval" => tasks[t].mode = "approve"
        /\ (tasks'[t].writes # tasks[t].writes) =>
            /\ tasks[t].mode # "dry-run"
            /\ tasks[t].workspace # NoWorkspace
            /\ tasks[t].mode = "approve" => tasks[t].pc = "awaiting_approval"
        /\ (tasks'[t].toolCallCount # tasks[t].toolCallCount /\ tasks[t].mode = "apply"
                /\ tasks[t].workspace # NoWorkspace) =>
            tasks'[t].writes = tasks[t].writes + 1]_vars

\* task 1 was started in dry-run mode and is still in flight, without write
\* tools and without a write, after the session was switched to apply; task 2,
\* started after the switch, has the write tools and has written
C29_Witness ==
    /\ InFlightTask(1)
    /\ tasks[1].mode = "dry-run"
    /\ tasks[1].catalog \cap WriteTools = {}
    /\ tasks[1].toolCallCount = 1
    /\ tasks[1].writes = 0
    /\ session.mode = "apply"
    /\ tasks[2].mode = "apply"
    /\ WriteTools \subseteq tasks[2].catalog
    /\ tasks[2].writes = 1

\* ------------------------------------------------------------------ C30
\* C30: the output of every ToolCallRecord that is pushed has at most 1000
\* characters, whatever the tool, the length of its result and the length of
\* its input path.
C30_Original_RecordOutputBounded ==
    recOut.pushed => recOut.output <= OutputLimit

\* C32 (as stated): resolvePathInWorkspace throws WorkspaceError only when the
\* resolved path is outside the workspace: every target that resolves to the
\* workspace or to a descendant of it is accepted.
C32_Original_ThrowsOnlyOutside ==
    (rpResult.called /\ Within(rpResult.path, rpWorkspace)) => rpResult.ok

\* C31 (as stated): read_file never reads a file outside the working
\* directory: when readFile does not fail with 'Access denied', the file that
\* is opened is cwd itself or a descendant of cwd, for relative and absolute
\* paths alike.
C31_Original_ReadStaysInCwd ==
    (readCall.called /\ ~readCall.denied) => Within(readCall.opened, readCall.cwd)

\* the last tool_result of the turn answers the block the loop is at
CallAnswered == Len(toolResults) > 0 /\ toolResults[Len(toolResults)] = toolUse.id

\* C33: the sandbox check precedes the approval step. In approve mode a
\* write_file or apply_patch whose target is outside the workspace, or that
\* arrives without a workspace, is turned away in the step that dispatches it:
\* the handler has read no file, no approval prompt is opened or answered, and
\* the disk is unchanged.
C33_SandboxBeforeApproval ==
    [][(Dispatches(WriteTools) /\ options.approve /\ TargetOutside(toolUse'))
        => /\ handler'.read = <<>>
           /\ pc' # "awaiting_approval"
           /\ choice' = "none"
           /\ DiskUnchanged
           /\ result' \in {Content("outside_workspace"), Content("no_workspace")}]_vars

\* approve mode with a workspace: a write to /a/bb, the sibling whose name
\* extends the workspace's, was turned away unread and unprompted
C33_Witness ==
    /\ options.approve
    /\ ~options.apply
    /\ options.workspace = MainWorkspace
    /\ toolUse.name \in WriteTools
    /\ toolUse.path = <<"/", "a", "/", "b", "b">>
    /\ CallAnswered
    /\ result = Content("outside_workspace")
    /\ handler.read = <<>>
    /\ choice = "none"

\* C34: apply_patch with a diff that does not apply to the current content
\* returns the failure result in the step that dispatches it, in approve and
\* in apply mode: no approval prompt is opened and the disk is unchanged. A
\* prompt for apply_patch is open only for a patch that applied.
C34_MismatchedPatchNotPrompted ==
    /\ [][(Dispatches({"apply_patch"}) /\ handler'.patched = "false")
            => /\ pc' # "awaiting_approval"
               /\ choice' = "none"
               /\ DiskUnchanged
               /\ result' = Content("patch_mismatch")]_vars
    /\ []((pc = "awaiting_approval" /\ toolUse.name = "apply_patch")
            => handler.patched = "content")

\* approve mode: a patch for the existing file x did not apply, was answered
\* with the failure and x still has its old content
C34_Witness ==
    /\ options.approve
    /\ ~options.apply
    /\ toolUse.name = "apply_patch"
    /\ handler = [read |-> <<"/", "a", "/", "b", "/", "x">>, patched |-> "false"]
    /\ <<"/", "a", "/", "b", "/", "x">> \in DOMAIN files
    /\ files[<<"/", "a", "/", "b", "/", "x">>] = "old"
    /\ CallAnswered
    /\ result = Content("patch_mismatch")
    /\ choice = "none"

\* the same in apply mode
C34_WitnessApply ==
    /\ options.apply
    /\ ~options.approve
    /\ toolUse.name = "apply_patch"
    /\ handler.patched = "false"
    /\ CallAnswered
    /\ result = Content("patch_mismatch")
    /\ fsLog = {}

\* C35: in an interactive session the write mode is approve or apply only
\* while a workspace is set: no line (!workspace, !mode, !dry, !approve,
\* !apply, !plan, !clear, a task, a plan confirmation) unsets the workspace or
\* switches to a write mode without one.
C35_WriteModeNeedsWorkspace ==
    /\ [](session.mode \in {"approve", "apply"} => session.workspace # NoWorkspace)
    /\ [][session.workspace # NoWorkspace => session'.workspace # NoWorkspace]_vars
    /\ [][(session'.mode # session.mode /\ session'.mode \in {"approve", "apply"})
            => session.workspace # NoWorkspace]_vars

\* the plan of task 1 was confirmed with y in a session that had set its
\* workspace with !workspace: the session is in approve mode now, and the y
\* was started as task 2 while the session was still in dry-run
C35_Witness ==
    /\ tasks[1].planOnly
    /\ tasks[1].workspace = NoWorkspace
    /\ tasks[1].pc = "done"
    /\ tasks[2].pc # "none"
    /\ tasks[2].mode = "dry-run"
    /\ ~tasks[2].planOnly
    /\ session.workspace = <<"/", "a">>
    /\ session.mode = "approve"

\* C36: a task submitted while plan-only mode is active runs in dry-run
\* whatever the write mode of the session is: its catalog has no write tool,
\* it is never asked for an approval and it writes no file.
C36_PlanOnlyTaskIsDryRun ==
    \A t \in 1..MaxTasks :
        tasks[t].planOnly =>
            /\ tasks[t].mode = "dry-run"
            /\ tasks[t].catalog \cap WriteTools = {}
            /\ tasks[t].pc # "awaiting_approval"
            /\ tasks[t].writes = 0

\* the session is in apply mode with a workspace; task 1 was submitted in
\* plan-only mode, has made a write request and has written nothing
C36_Witness ==
    /\ session.mode = "apply"
    /\ tasks[1].planOnly
    /\ tasks[1].workspace = MainWorkspace
    /\ tasks[1].pc = "awaiting_model"
    /\ tasks[1].toolCallCount = 1
    /\ tasks[1].writes = 0

\* C37 (as stated): once a task submitted with plan-only active has been
\* processed, whether its run returned or failed, the plan-only flag of the
\* session is false.
C37_Original_PlanOnlyOneTask ==
    [][\A t \in 1..MaxTasks :
        (tasks[t].planOnly /\ InFlightTask(t) /\ tasks'[t].pc \in {"confirming", "done"})
            => ~session'.planOnly]_vars

\* C38 (as stated): the line that answers a plan confirmation is consumed by
\* the confirmation only: the step that resolves a confirmation starts no
\* task and runs no built-in command.
C38_Original_ConfirmationLineOnlyConfirms ==
    [][(\E t \in 1..MaxTasks : tasks[t].pc = "confirming" /\ tasks'[t].pc = "done")
        => /\ session'.lines = session.lines
           /\ session'.messages = session.messages
           /\ session'.planOnly = session.planOnly
           /\ session'.workspace = session.workspace
           /\ session'.mode \in {session.mode,
                                 planConfirmed(session.mode, session.workspace)}]_vars

\* the tasks whose runOrchestrator has not returned
RunsInFlight == {t \in 1..MaxTasks : InFlightTask(t)}

\* C39 (as stated): at most one orchestrator run is in flight in a session,
\* and in the history the user message of a task is followed by the assistant
\* message of the same task.
C39_Original_OneRunInFlight ==
    /\ Cardinality(RunsInFlight) <= 1
    /\ \A i \in 1..(Len(session.messages) - 1) :
        session.messages[i].role = "user" =>
            session.messages[i + 1] =
                [role |-> "assistant", task |-> session.messages[i].task]

\* the case labels of the switch of executeToolCall; any other name reaches
\* default
ToolCases ==
    {"repo_search", "read_file", "git_diff", "run_command", "write_file", "apply_patch",
     "ask_openai", "ask_gemini"}

\* every name of the catalog has a case of the switch, and the write tools
\* are in the catalog only under options that pass the gates of the
\* dispatcher and of the handlers
CatalogHandled ==
    pc # "init" =>
        \A name \in Names(tools) :
            /\ name \in ToolCases
            /\ IsWriteTool(name) =>
                /\ ~writesDisabled(options)
                /\ ~handlerDisabled(options.apply, options.approve)

\* this step answers the call it dispatches
AnswersCall == toolResults' = Append(toolResults, toolUse'.id)

\* C40: the catalog and the dispatcher agree. Every name buildTools puts in
\* the catalog has a case in executeToolCall, and a call of a catalog tool is
\* never answered with 'Unknown tool' or with the 'disabled' refusal; a call
\* of a name outside the known set is answered with the 'Unknown tool' error,
\* is not recorded, and touches neither the disk, nor the advisors, nor a
\* write handler.
C40_CatalogAndDispatcherAgree ==
    /\ []CatalogHandled
    /\ [][(dispatched' = dispatched + 1 /\ toolUse'.name \in Names(tools) /\ AnswersCall)
            => result'.content \notin {"unknown_tool", "writes_disabled"}]_vars
    /\ [][(dispatched' = dispatched + 1 /\ toolUse'.name \notin ToolCases)
            => /\ AnswersCall
               /\ result' = Error("unknown_tool")
               /\ DiskUnchanged
               /\ toolCalls' = toolCalls
               /\ advisorResponses' = advisorResponses
               /\ handler' = NoHandler
               /\ choice' = "none"]_vars

\* approve mode: a write_file of the catalog was dispatched and is waiting
\* for its approval, after a call of an unknown tool was answered with the
\* error
C40_Witness ==
    /\ options.approve
    /\ "write_file" \in Names(tools)
    /\ toolUse.name = "write_file"
    /\ pc = "awaiting_approval"
    /\ dispatched = 2
    /\ result = Error("unknown_tool")
    /\ toolCalls = 0

====
